---- MODULE Spec2Model ----
(***************************************************************************)
(* HomeEase product-scraper service (src/brightdata): the snapshot poller  *)
(* BrightDataService._poll_snapshot, the /scrape entry point                *)
(* scrape_products with the services it composes, the filter and the       *)
(* record normalisation on their own, and the /snapshot entry point        *)
(* get_snapshot.                                                           *)
(*                                                                         *)
(* Numbers: ratings are kept in tenths (4.5 is 45), prices in thousandths  *)
(* (45.99 is 45990); an optional number is <<>> (None) or <<v>>.           *)
(***************************************************************************)
EXTENDS Integers, Sequences, FiniteSets, TLC

VARIABLES
    \* ---- BrightDataService._poll_snapshot: one call
    pollPc,        \* "idle" | "query" (at client.get) | "sleep" (at asyncio.sleep)
                   \* | "returned" (return data) | "raised" (exception left the call)
    attempt,       \* the loop variable of `for attempt in range(1, max_attempts + 1)`
    queries,       \* client.get calls issued so far
    delays,        \* asyncio.sleep calls completed so far
    elapsed,       \* seconds slept so far
    pollResult,    \* the body returned, NoBody before that
    pollError,     \* the message of the exception that left the call, "" before that
    lastAnswer,    \* the backend's answer to the latest status query
    seenBefore,    \* history: the classes of the answers before the latest one
    aborted,       \* the caller has cancelled the task running the call
    \* ---- scrape_products: one entry per invocation
    scrapePc,      \* "idle" | "entered" | "submit" (at the await of search_products)
                   \* | "primary" (search_products has ended) | "fallback"
                   \* | "filter" | "done"
    request,       \* the ScrapeRequest
    criteria,      \* min_rating, max_price, limit as resolved at lines 76-78
    submitAnswer,  \* what the backend did with the POST
    submitResult,  \* how search_products ended
    all_products,  \* the local all_products
    calls,         \* the service calls made by the invocation, in order
    response,      \* what the invocation returned or raised
    mockProducts,  \* mock_service.mock_products, the list every invocation shares
    \* ---- ProductFilterService.filter_and_rank_products: one call
    filterCall,    \* the arguments of the call, NoCall when there is none
    filterReturn,  \* the list returned, NotReturned before that
    \* ---- BrightDataService.parse_products / MockDataService: one call each
    parseCall,     \* the batch of raw records and the keywords, NoCall when none
    parseReturn,   \* what the parsers returned, NotReturned before that
    \* ---- get_snapshot: one invocation
    snapPc,        \* "idle" | "fetch" (at the await of client.get)
                   \* | "fetched" (client.get has ended) | "done"
    snapId,        \* the path parameter snapshot_id
    snapAnswer,    \* what the backend did with the GET
    snapProducts,  \* the local all_products
    snapCalls,     \* the service calls made by the invocation, in order
    snapResponse,  \* what the invocation returned or raised
    \* ---- ProductFilterService._extract_price_value: one call
    priceCall,     \* the argument, NoCall when there is no call
    priceReturn,   \* the value returned, NotReturned before that
    \* ---- hs_client: the relay agent between chat peers and the house guide
    to_addr,       \* os.getenv("HOUSE_GUIDE_ADDRESS"), "" when it is not set
    reply_peer,    \* ctx.storage["reply_peer"], "" when the key is absent
    chatCount,     \* chat messages handled so far
    forwarded,     \* GenerateRequests sent to the house guide, not yet answered
    answers,       \* responses of the house guide on their way to the client
    delivered      \* ChatMessages the client has sent to peers

pollVars == <<pollPc, attempt, queries, delays, elapsed, pollResult, pollError,
              lastAnswer, seenBefore, aborted>>

scrapeVars == <<scrapePc, request, criteria, submitAnswer, submitResult,
                all_products, calls, response, mockProducts>>

filterVars == <<filterCall, filterReturn>>

parseVars == <<parseCall, parseReturn>>

snapVars == <<snapPc, snapId, snapAnswer, snapProducts, snapCalls, snapResponse>>

priceVars == <<priceCall, priceReturn>>

clientVars == <<to_addr, reply_peer, chatCount, forwarded, answers, delivered>>

vars == <<pollVars, scrapeVars, filterVars, parseVars, snapVars, priceVars,
          clientVars>>

-----------------------------------------------------------------------------
(* BrightDataService._poll_snapshot *)

max_attempts == 30
poll_interval == 5

\* line 130
TimeoutMessage == "Timeout waiting for snapshot to complete"

NoBody == [status |-> "none", tag |-> 0]
NoAnswer == [code |-> -1, shape |-> "none", status |-> "none", tag |-> 0]

\* The status texts a JSON-object body may carry; "absent" is a body without
\* the key.
StatusTexts == {"ready", "complete", "done", "failed", "error",
                "pending", "running", "absent"}

\* What the backend may answer to one status query.  code 0 stands for a
\* transport error (client.get raises, there is no response); shape is what
\* response.json() gives: a JSON object, another JSON value, or no JSON at all;
\* tag tells two payloads of the same status apart.
PollAnswers ==
    [code : {200}, shape : {"dict"}, status : StatusTexts, tag : {1, 2}]
    \cup [code : {200}, shape : {"list", "text"}, status : {"absent"}, tag : {0}]
    \cup [code : {202, 404, 500}, shape : {"text"}, status : {"absent"}, tag : {0}]
    \cup [code : {0}, shape : {"none"}, status : {"absent"}, tag : {0}]

BodyOf(a) == [status |-> a.status, tag |-> a.tag]

\* data.get('status', 'unknown')
StatusOf(a) == IF a.status = "absent" THEN "unknown" ELSE a.status

ReadyStatuses == {"ready", "complete", "done"}
FailedStatuses == {"failed", "error"}

\* Mutant: 'done' is not taken as a ready status.
PollIterationDoneNotReady(a) ==
    IF a.code = 0 THEN "except"
    ELSE IF a.code = 200
         THEN IF a.shape # "dict" THEN "except"
              ELSE IF StatusOf(a) \in {"ready", "complete"} THEN "return"
              ELSE IF StatusOf(a) \in FailedStatuses THEN "except"
              ELSE "sleep"
         ELSE "sleep"

\* Mutant: a transport error leaves the loop (no except clause around the query).
PollIterationTransportEscapes(a) ==
    IF a.code = 0 THEN "escape"
    ELSE IF a.code = 200
         THEN IF a.shape # "dict" THEN "except"
              ELSE IF StatusOf(a) \in ReadyStatuses THEN "return"
              ELSE IF StatusOf(a) \in FailedStatuses THEN "except"
              ELSE "sleep"
         ELSE "sleep"

\* One iteration of the loop body, from the response to where control goes:
\* "return" (line 109), "sleep" (lines 115, 118, 121), or "except": an
\* exception raised inside the try block, which the handler of line 126
\* catches and answers with a sleep (line 128).  The raise of line 112 is
\* inside that try block too.
PollIteration(a) ==
    IF a.code = 0 THEN "except"                       \* client.get raised
    ELSE IF a.code = 200
         THEN IF a.shape # "dict" THEN "except"       \* json() or data.get raised
              ELSE IF StatusOf(a) \in ReadyStatuses THEN "return"
              ELSE IF StatusOf(a) \in FailedStatuses THEN "except"
              ELSE "sleep"
         ELSE IF a.code = 202 THEN "sleep"
         ELSE "sleep"

\* Mutant: the loop runs one attempt too many.
LoopHasNextOffByOne(a) == a <= max_attempts

\* for attempt in range(1, max_attempts + 1): is there an iteration after `a`?
LoopHasNext(a) == a < max_attempts

\* History: the class of an answer.
ClassOf(a) ==
    IF a.code = 0 THEN "transport"
    ELSE IF a.code = 202 THEN "processing"
    ELSE IF a.code # 200 THEN "unexpected"
    ELSE IF a.shape # "dict" THEN "badbody"
    ELSE IF StatusOf(a) \in ReadyStatuses THEN "ready"
    ELSE IF StatusOf(a) \in FailedStatuses THEN "failed"
    ELSE IF StatusOf(a) = "pending" THEN "pending"
    ELSE "other"

PollInit ==
    /\ pollPc = "idle"
    /\ attempt = 0
    /\ queries = 0
    /\ delays = 0
    /\ elapsed = 0
    /\ pollResult = NoBody
    /\ pollError = ""
    /\ lastAnswer = NoAnswer
    /\ seenBefore = {}
    /\ aborted = FALSE

\* The call: the client is opened and the loop entered.
PollStart ==
    /\ pollPc = "idle"
    /\ pollPc' = "query"
    /\ attempt' = 1
    /\ UNCHANGED <<queries, delays, elapsed, pollResult, pollError, lastAnswer,
                   seenBefore>>
    /\ UNCHANGED <<aborted, scrapeVars, filterVars, parseVars, snapVars, priceVars,
                 clientVars>>

\* One status query and the handling of its answer, up to the return or to
\* the next await.
PollQuery ==
    /\ pollPc = "query"
    /\ \E a \in PollAnswers :
        /\ queries' = queries + 1
        /\ lastAnswer' = a
        /\ seenBefore' = IF queries = 0 THEN {}
                         ELSE seenBefore \cup {ClassOf(lastAnswer)}
        /\ IF PollIteration(a) = "return"
           THEN /\ pollPc' = "returned"
                /\ pollResult' = BodyOf(a)
                /\ pollError' = pollError
           ELSE IF PollIteration(a) \in {"sleep", "except"}
           THEN /\ pollPc' = "sleep"
                /\ UNCHANGED <<pollResult, pollError>>
           ELSE /\ pollPc' = "raised"
                /\ pollError' = "Error polling snapshot"
                /\ pollResult' = pollResult
    /\ UNCHANGED <<attempt, delays, elapsed>>
    /\ UNCHANGED <<aborted, scrapeVars, filterVars, parseVars, snapVars, priceVars,
                 clientVars>>

\* asyncio.sleep(poll_interval) completes; the loop goes on, or is exhausted
\* and line 130 raises.
PollSleep ==
    /\ pollPc = "sleep"
    /\ delays' = delays + 1
    /\ elapsed' = elapsed + poll_interval
    /\ IF LoopHasNext(attempt)
       THEN /\ attempt' = attempt + 1
            /\ pollPc' = "query"
            /\ pollError' = pollError
       ELSE /\ pollPc' = "raised"
            /\ pollError' = TimeoutMessage
            /\ attempt' = attempt
    /\ UNCHANGED <<queries, pollResult, lastAnswer, seenBefore>>
    /\ UNCHANGED <<aborted, scrapeVars, filterVars, parseVars, snapVars, priceVars,
                 clientVars>>

\* Mutant: the handler of line 126 catches the cancellation too.
CaughtByLoopBareExcept(exc) == TRUE

\* The handlers of lines 123 and 126, `except httpx.HTTPStatusError` and
\* `except Exception`: asyncio.CancelledError derives from BaseException
\* and passes both.
CaughtByLoop(exc) == exc # "CancelledError"

\* The caller cancels the task while the call is suspended at client.get
\* (line 96) or at an asyncio.sleep: CancelledError is raised at that await.
\* The awaits of lines 96, 115, 118 and 121 are inside the try block; the
\* sleeps of lines 125 and 128 are inside a handler, which no handler of the
\* same try statement protects.
PollCancel ==
    /\ pollPc \in {"query", "sleep"}
    /\ ~aborted
    /\ aborted' = TRUE
    /\ LET in_try == pollPc = "query" \/ PollIteration(lastAnswer) = "sleep"
       IN  pollPc' = IF in_try /\ CaughtByLoop("CancelledError")
                     THEN "sleep"
                     ELSE "cancelled"
    /\ UNCHANGED <<attempt, queries, delays, elapsed, pollResult, pollError,
                   lastAnswer, seenBefore>>
    /\ UNCHANGED <<scrapeVars, filterVars, parseVars, snapVars, priceVars,
                   clientVars>>

-----------------------------------------------------------------------------
(* Values: Python's None and JSON values *)

\* An optional number: <<>> is None, <<v>> is the value v.
None == <<>>
Some(v) == <<v>>

\* Python's `x or d` on an optional number: None and 0 are falsy.
OrDefault(x, d) == IF x = None \/ x[1] = 0 THEN d ELSE x[1]

\* JSON values as response.json() gives them.  A float is kept in tenths.
JNull == [t |-> "null"]
JStr(s) == [t |-> "str", s |-> s]
JInt(i) == [t |-> "int", i |-> i]
JFloat(f) == [t |-> "float", f |-> f]
JList(l) == [t |-> "list", l |-> l]
JDict(d) == [t |-> "dict", d |-> d]

\* dict.get(k, default)
Get(d, k, default) == IF k \in DOMAIN d THEN d[k] ELSE default

\* Python truthiness of a JSON value
Truthy(v) ==
    CASE v.t = "null" -> FALSE
      [] v.t = "str" -> v.s # ""
      [] v.t = "int" -> v.i # 0
      [] v.t = "float" -> v.f # 0
      [] v.t = "list" -> Len(v.l) > 0
      [] v.t = "dict" -> DOMAIN v.d # {}

-----------------------------------------------------------------------------
(* Strings *)

Ch(s, i) == SubSeq(s, i, i)

Digits == {"0", "1", "2", "3", "4", "5", "6", "7", "8", "9"}

DigitVal(c) ==
    CASE c = "0" -> 0 [] c = "1" -> 1 [] c = "2" -> 2 [] c = "3" -> 3
      [] c = "4" -> 4 [] c = "5" -> 5 [] c = "6" -> 6 [] c = "7" -> 7
      [] c = "8" -> 8 [] c = "9" -> 9

\* str.lower() on one ASCII character
LowerCh(c) ==
    CASE c = "A" -> "a" [] c = "B" -> "b" [] c = "C" -> "c" [] c = "D" -> "d"
      [] c = "E" -> "e" [] c = "F" -> "f" [] c = "G" -> "g" [] c = "H" -> "h"
      [] c = "I" -> "i" [] c = "J" -> "j" [] c = "K" -> "k" [] c = "L" -> "l"
      [] c = "M" -> "m" [] c = "N" -> "n" [] c = "O" -> "o" [] c = "P" -> "p"
      [] c = "Q" -> "q" [] c = "R" -> "r" [] c = "S" -> "s" [] c = "T" -> "t"
      [] c = "U" -> "u" [] c = "V" -> "v" [] c = "W" -> "w" [] c = "X" -> "x"
      [] c = "Y" -> "y" [] c = "Z" -> "z" [] OTHER -> c

RECURSIVE Lower(_)
Lower(s) == IF s = "" THEN "" ELSE LowerCh(Ch(s, 1)) \o Lower(SubSeq(s, 2, Len(s)))

\* `k in s` on strings
Contains(s, k) ==
    \E i \in 1..(Len(s) - Len(k) + 1) : SubSeq(s, i, i + Len(k) - 1) = k

\* `c in s` for one character
HasCh(s, c) == \E i \in 1..Len(s) : Ch(s, i) = c

\* Mutant: the separators are stripped with the other characters.
RECURSIVE KeepDigitsOnly(_)
KeepDigitsOnly(s) ==
    IF s = "" THEN ""
    ELSE (IF Ch(s, 1) \in Digits THEN Ch(s, 1) ELSE "")
         \o KeepDigitsOnly(SubSeq(s, 2, Len(s)))

\* re.sub(r'[^\d.,]', '', s)
RECURSIVE KeepPriceChars(_)
KeepPriceChars(s) ==
    IF s = "" THEN ""
    ELSE (IF Ch(s, 1) \in Digits \cup {".", ","} THEN Ch(s, 1) ELSE "")
         \o KeepPriceChars(SubSeq(s, 2, Len(s)))

\* s.replace(a, b) for one character a
RECURSIVE ReplaceCh(_, _, _)
ReplaceCh(s, a, b) ==
    IF s = "" THEN ""
    ELSE (IF Ch(s, 1) = a THEN b ELSE Ch(s, 1)) \o ReplaceCh(SubSeq(s, 2, Len(s)), a, b)

\* len(s.split(c)[-1]): the characters after the last c
RECURSIVE LenAfterLast(_, _)
LenAfterLast(s, c) ==
    IF s = "" \/ Ch(s, Len(s)) = c THEN 0
    ELSE 1 + LenAfterLast(SubSeq(s, 1, Len(s) - 1), c)

AllDigits(s) == \A i \in 1..Len(s) : Ch(s, i) \in Digits

RECURSIVE DigitsValue(_)
DigitsValue(s) ==
    IF s = "" THEN 0
    ELSE 10 * DigitsValue(SubSeq(s, 1, Len(s) - 1)) + DigitVal(Ch(s, Len(s)))

RECURSIVE Pow10(_)
Pow10(n) == IF n = 0 THEN 1 ELSE 10 * Pow10(n - 1)

\* The index of the first '.' of s, 0 when there is none
RECURSIVE FirstDot(_, _)
FirstDot(s, i) ==
    IF i > Len(s) THEN 0 ELSE IF Ch(s, i) = "." THEN i ELSE FirstDot(s, i + 1)

\* float(s) for an unsigned string, in units of 10^-places: None when Python
\* raises ValueError.  Accepted: digits, digits '.', digits '.' digits,
\* '.' digits.  Digits after the first `places` decimals are cut (the inputs
\* drawn here carry no more).
ParseUnsigned(s, places) ==
    LET dot == FirstDot(s, 1)
        ip == IF dot = 0 THEN s ELSE SubSeq(s, 1, dot - 1)
        fp == IF dot = 0 THEN "" ELSE SubSeq(s, dot + 1, Len(s))
        fcut == SubSeq(fp, 1, IF Len(fp) < places THEN Len(fp) ELSE places)
    IN  IF ~AllDigits(ip) \/ ~AllDigits(fp) \/ (ip = "" /\ fp = "")
        THEN None
        ELSE Some(DigitsValue(ip) * Pow10(places)
                  + DigitsValue(fcut) * Pow10(places - Len(fcut)))

-----------------------------------------------------------------------------
(* config.Settings: the defaults, with no environment override *)

MIN_RATING == 40
MAX_PRICE == 100000
TOP_PRODUCTS_LIMIT == 5

-----------------------------------------------------------------------------
(* product_filter.ProductFilterService *)

\* __init__
filter_min_rating == 40
filter_max_price == 100000
filter_top_limit == 5

\* _extract_price_value: the price in thousandths, None when the string is
\* empty or float() raises ValueError.
_extract_price_value(price_str) ==
    IF price_str = "" THEN None
    ELSE LET c == KeepPriceChars(price_str)
             price_clean ==
                 IF HasCh(c, ",") /\ HasCh(c, ".") THEN ReplaceCh(c, ",", "")
                 ELSE IF HasCh(c, ",") /\ LenAfterLast(c, ",") <= 2
                      THEN ReplaceCh(c, ",", ".")
                      ELSE c
         IN  ParseUnsigned(price_clean, 3)

\* key=lambda p: (-p.rating, self._extract_price_value(p.price) or float('inf'))
\* inf = 1 stands for float('inf').
SortKey(p) ==
    LET v == _extract_price_value(p.price)
    IN  IF v = None \/ v[1] = 0
        THEN [r |-> 0 - p.rating, inf |-> 1, v |-> 0]
        ELSE [r |-> 0 - p.rating, inf |-> 0, v |-> v[1]]

\* Python's tuple order on two sort keys
KeyLess(a, b) ==
    \/ a.r < b.r
    \/ a.r = b.r /\ a.inf < b.inf
    \/ a.r = b.r /\ a.inf = b.inf /\ a.v < b.v

\* sorted(): stable, so an element goes after every element whose key is not
\* greater than its own.
RECURSIVE InsertStable(_, _)
InsertStable(sorted, x) ==
    IF sorted = <<>> THEN <<x>>
    ELSE IF KeyLess(SortKey(x), SortKey(Head(sorted)))
         THEN <<x>> \o sorted
         ELSE <<Head(sorted)>> \o InsertStable(Tail(sorted), x)

RECURSIVE Sorted(_)
Sorted(ps) ==
    IF ps = <<>> THEN <<>>
    ELSE InsertStable(Sorted(SubSeq(ps, 1, Len(ps) - 1)), ps[Len(ps)])

\* [product for product in products if product.rating >= min_rating]
RECURSIVE FilterByRating(_, _)
FilterByRating(ps, min_rating) ==
    IF ps = <<>> THEN <<>>
    ELSE (IF Head(ps).rating >= min_rating THEN <<Head(ps)>> ELSE <<>>)
         \o FilterByRating(Tail(ps), min_rating)

\* Mutant: a price that cannot be parsed passes the price test.
RECURSIVE FilterByPriceKeepsUnparsed(_, _)
FilterByPriceKeepsUnparsed(ps, max_price) ==
    IF ps = <<>> THEN <<>>
    ELSE LET price_value == _extract_price_value(Head(ps).price)
         IN  (IF price_value = None \/ price_value[1] <= max_price
              THEN <<Head(ps)>> ELSE <<>>)
             \o FilterByPriceKeepsUnparsed(Tail(ps), max_price)

\* the loop appending to filtered_by_price
RECURSIVE FilterByPrice(_, _)
FilterByPrice(ps, max_price) ==
    IF ps = <<>> THEN <<>>
    ELSE LET price_value == _extract_price_value(Head(ps).price)
         IN  (IF price_value # None /\ price_value[1] <= max_price
              THEN <<Head(ps)>> ELSE <<>>)
             \o FilterByPrice(Tail(ps), max_price)

\* s[:n]
SliceTo(s, n) ==
    IF n >= 0 THEN SubSeq(s, 1, IF n < Len(s) THEN n ELSE Len(s))
    ELSE SubSeq(s, 1, Len(s) + n)

\* filter_and_rank_products; the three criteria are optional numbers.
filter_and_rank_products(products, min_rating, max_price, limit) ==
    IF products = <<>> THEN <<>>
    ELSE LET mr == OrDefault(min_rating, filter_min_rating)
             mp == OrDefault(max_price, filter_max_price)
             lim == OrDefault(limit, filter_top_limit)
         IN  SliceTo(Sorted(FilterByPrice(FilterByRating(products, mr), mp)), lim)

-----------------------------------------------------------------------------
(* models.Product and mock_service.MockDataService *)

\* Product(...): title, link, image and price are strings, rating a float in
\* tenths; review_count, asin and availability are optional and kept as JSON
\* values.
Product(title, link, image, price, rating, review_count, asin, availability) ==
    [title |-> title, link |-> link, image |-> image, price |-> price,
     rating |-> rating, review_count |-> review_count, asin |-> asin,
     availability |-> availability]

\* self.mock_products
mock_products == <<
    JDict([title |-> JStr("Professional Tap and Die Set - 40 Piece"),
     url |-> JStr("https://www.amazon.com/dp/B08CVSLHQD"),
     image |-> JStr("https://images-na.ssl-images-amazon.com/images/I/61YVz1vKJZL._AC_SL1500_.jpg"),
     price |-> JStr("$45.99"),
     rating |-> JFloat(45),
     review_count |-> JInt(1234),
     asin |-> JStr("B08CVSLHQD"),
     availability |-> JStr("In Stock")]),
    JDict([title |-> JStr("Crescent Adjustable Wrench Set"),
     url |-> JStr("https://www.amazon.com/dp/B07ZBXXF6H"),
     image |-> JStr("https://images-na.ssl-images-amazon.com/images/I/81Yqy5Xs8XL._AC_SL1500_.jpg"),
     price |-> JStr("$32.50"),
     rating |-> JFloat(43),
     review_count |-> JInt(856),
     asin |-> JStr("B07ZBXXF6H"),
     availability |-> JStr("In Stock")]),
    JDict([title |-> JStr("Precision Tap Wrench with Comfort Grip"),
     url |-> JStr("https://www.amazon.com/dp/B00BCP7KHQ"),
     image |-> JStr("https://images-na.ssl-images-amazon.com/images/I/71T5R7YyHXL._AC_SL1500_.jpg"),
     price |-> JStr("$18.75"),
     rating |-> JFloat(47),
     review_count |-> JInt(2341),
     asin |-> JStr("B00BCP7KHQ"),
     availability |-> JStr("In Stock")]) >>

\* any(keyword.lower() in title_lower for keyword in keywords)
AnyKeywordIn(keywords, title) ==
    \E i \in 1..Len(keywords) : Contains(Lower(title), Lower(keywords[i]))

RECURSIVE MockMatches(_, _)
MockMatches(ps, keywords) ==
    IF ps = <<>> THEN <<>>
    ELSE (IF AnyKeywordIn(keywords, Head(ps).d.title.s) THEN <<Head(ps)>> ELSE <<>>)
         \o MockMatches(Tail(ps), keywords)

\* The body of MockDataService.search_products, self.mock_products being
\* `products`
MockSearch(products, keywords) ==
    LET matched == MockMatches(products, keywords)
        filtered_products == IF matched = <<>> THEN products ELSE matched
    IN  JDict([data |-> JList(<<
            JDict([keyword |-> JStr(IF keywords # <<>> THEN keywords[1] ELSE "test"),
                   results |-> JList(filtered_products)]) >>)])

\* MockDataService.search_products on the service object of main.py line 40
mock_search_products(keywords) == MockSearch(mockProducts, keywords)

\* Iterating a JSON value with `for x in v`: a list gives its elements, a
\* dict its keys and a string its characters (strings either way); anything
\* else raises TypeError.
Iterable(v) == v.t \in {"list", "dict", "str"}

RECURSIVE KeysOf(_)
KeysOf(ks) ==
    IF ks = {} THEN <<>>
    ELSE LET k == CHOOSE x \in ks : TRUE IN <<JStr(k)>> \o KeysOf(ks \ {k})

Elements(v) ==
    CASE v.t = "list" -> v.l
      [] v.t = "dict" -> KeysOf(DOMAIN v.d)
      [] v.t = "str" -> [i \in 1..Len(v.s) |-> JStr(Ch(v.s, i))]

\* Field validation by the pydantic model Product: a value of the field's own
\* type is taken as it is; a value of another type is taken to be rejected.
IsStrField(v) == v.t = "str"
IsOptionalIntField(v) == v.t \in {"int", "null"}
IsOptionalStrField(v) == v.t \in {"str", "null"}

\* The first whitespace-separated token of s (s.split()[0]); "" when there is
\* none, where Python raises IndexError.
RECURSIVE FirstToken(_)
FirstToken(s) ==
    IF s = "" THEN ""
    ELSE IF Ch(s, 1) = " " THEN FirstToken(SubSeq(s, 2, Len(s)))
    ELSE LET sp == CHOOSE i \in 1..(Len(s) + 1) :
                       /\ i > Len(s) \/ Ch(s, i) = " "
                       /\ \A j \in 1..(i - 1) : Ch(s, j) # " "
         IN  SubSeq(s, 1, sp - 1)

\* float(s) for a token with an optional sign, in units of 10^-places; None
\* on ValueError.
ParseSigned(s, places) ==
    IF s # "" /\ Ch(s, 1) \in {"-", "+"}
    THEN LET u == ParseUnsigned(SubSeq(s, 2, Len(s)), places)
         IN  IF u = None THEN None
             ELSE IF Ch(s, 1) = "-" THEN Some(0 - u[1]) ELSE u
    ELSE ParseUnsigned(s, places)

\* float(v) on a JSON value, in tenths; None when Python raises. A string is
\* stripped of surrounding blanks and must then be one numeric token.
FloatOf(v) ==
    CASE v.t = "float" -> Some(v.f)
      [] v.t = "int" -> Some(10 * v.i)
      [] v.t = "str" -> IF ReplaceCh(v.s, " ", "") = FirstToken(v.s)
                        THEN ParseSigned(FirstToken(v.s), 1)
                        ELSE None
      [] OTHER -> None

\* The Product of one item in MockDataService.parse_products, None when the
\* construction raises (the loop's except clause skips the item).
mock_product_of(item) ==
    IF item.t # "dict" THEN None
    ELSE LET d == item.d
             title == Get(d, "title", JStr(""))
             link == Get(d, "url", JStr(""))
             image == Get(d, "image", JStr(""))
             price == Get(d, "price", JStr(""))
             rating == FloatOf(Get(d, "rating", JInt(0)))
             review_count == Get(d, "review_count", JInt(0))
             asin == Get(d, "asin", JStr(""))
             availability == Get(d, "availability", JStr("Unknown"))
         IN  IF /\ rating # None
                /\ IsStrField(title) /\ IsStrField(link)
                /\ IsStrField(image) /\ IsStrField(price)
                /\ IsOptionalIntField(review_count)
                /\ IsOptionalStrField(asin) /\ IsOptionalStrField(availability)
             THEN Some(Product(title.s, link.s, image.s, price.s, rating[1],
                               review_count, asin, availability))
             ELSE None

RECURSIVE MockProductsOf(_)
MockProductsOf(items) ==
    IF items = <<>> THEN <<>>
    ELSE mock_product_of(Head(items)) \o MockProductsOf(Tail(items))

\* The groups of a payload: [ok |-> FALSE] when a loop raises TypeError on a
\* value that cannot be iterated (the outer except clause then returns []),
\* else the products of all groups in order.
RECURSIVE MockGroups(_)
MockGroups(entries) ==
    IF entries = <<>> THEN [ok |-> TRUE, products |-> <<>>]
    ELSE LET keyword_data == Head(entries)
             skip == ~(keyword_data.t = "dict" /\ "results" \in DOMAIN keyword_data.d)
                     /\ keyword_data.t # "list"
             keyword_results == IF keyword_data.t = "dict"
                                THEN keyword_data.d.results ELSE keyword_data
             rest == MockGroups(Tail(entries))
         IN  IF skip THEN rest
             ELSE IF ~Iterable(keyword_results) \/ ~rest.ok
                  THEN [ok |-> FALSE, products |-> <<>>]
                  ELSE [ok |-> TRUE,
                        products |-> MockProductsOf(Elements(keyword_results))
                                     \o rest.products]

\* MockDataService.parse_products
mock_parse_products(raw_data) ==
    LET search_results == IF raw_data.t = "dict" /\ "data" \in DOMAIN raw_data.d
                          THEN raw_data.d.data ELSE raw_data
    IN  IF ~Iterable(search_results) THEN <<>>
        ELSE LET g == MockGroups(Elements(search_results))
             IN  IF g.ok THEN g.products ELSE <<>>

-----------------------------------------------------------------------------
(* BrightDataService: search_products, parse_products, _extract_product_data *)

\* int(s) for a token with an optional sign; None on ValueError.
IntOf(s) ==
    LET body == IF s # "" /\ Ch(s, 1) \in {"-", "+"} THEN SubSeq(s, 2, Len(s)) ELSE s
    IN  IF body = "" \/ ~AllDigits(body) THEN None
        ELSE IF Ch(s, 1) = "-" THEN Some(0 - DigitsValue(body))
        ELSE Some(DigitsValue(body))

\* The first truthy value among the image keys, '' when there is none
FirstImage(d) ==
    LET try(k, prev) == IF ~Truthy(prev) THEN Get(d, k, JNull) ELSE prev
        i1 == Get(d, "image", JNull)
        i2 == try("image_url", i1)
        i3 == try("thumbnail", i2)
        i4 == try("product_image", i3)
        i5 == try("img", i4)
    IN  IF ~Truthy(i5) THEN JStr("") ELSE i5

\* Mutant: a record is discarded for a missing title only.
MissingTitleOnly(title, link) == ~Truthy(title)

\* Line 220: if not title or not link
MissingTitleOrLink(title, link) == ~Truthy(title) \/ ~Truthy(link)

\* _extract_product_data: None when the record is discarded (`return None`,
\* or an exception caught by the function's own except clause).
_extract_product_data(item) ==
    IF item.t # "dict" THEN None                 \* item.get raises AttributeError
    ELSE LET d == item.d
             title == Get(d, "title", Get(d, "name", JStr("")))
             link == Get(d, "url", Get(d, "link", Get(d, "product_link", JStr(""))))
             image == FirstImage(d)
             price == Get(d, "price", Get(d, "price_text", JStr("")))
             rating_raw == Get(d, "rating", Get(d, "stars", JInt(0)))
             \* None here: float(rating_raw) raises, which the outer except catches
             rating ==
                 IF rating_raw.t = "str"
                 THEN LET f == IF FirstToken(rating_raw.s) = "" THEN None
                               ELSE ParseSigned(FirstToken(rating_raw.s), 1)
                      IN  IF f = None THEN Some(0) ELSE f
                 ELSE IF Truthy(rating_raw) THEN FloatOf(rating_raw) ELSE Some(0)
             review_raw == Get(d, "review_count", Get(d, "reviews", JInt(0)))
             review_count ==
                 IF review_raw.t = "str"
                 THEN LET n == IntOf(FirstToken(ReplaceCh(review_raw.s, ",", "")))
                      IN  IF n = None THEN JInt(0) ELSE JInt(n[1])
                 ELSE review_raw
             asin == Get(d, "asin", Get(d, "product_id", JStr("")))
             availability == Get(d, "availability", Get(d, "in_stock", JStr("Unknown")))
         IN  IF rating = None THEN None
             ELSE IF MissingTitleOrLink(title, link) THEN None
             ELSE IF /\ IsStrField(title) /\ IsStrField(link)
                     /\ IsStrField(image) /\ IsStrField(price)
                     /\ IsOptionalIntField(review_count)
                     /\ IsOptionalStrField(asin) /\ IsOptionalStrField(availability)
                  THEN Some(Product(title.s, link.s, image.s, price.s, rating[1],
                                    review_count, asin, availability))
                  ELSE None                      \* Product(...) raises ValidationError

\* Mutant: the loop over the records ends at the first record that fails.
RECURSIVE ProductsOfStopsAtFailure(_)
ProductsOfStopsAtFailure(items) ==
    IF items = <<>> THEN <<>>
    ELSE IF _extract_product_data(Head(items)) = None THEN <<>>
    ELSE _extract_product_data(Head(items)) \o ProductsOfStopsAtFailure(Tail(items))

RECURSIVE ProductsOf(_)
ProductsOf(items) ==
    IF items = <<>> THEN <<>>
    ELSE _extract_product_data(Head(items)) \o ProductsOf(Tail(items))

\* The loop over search_results['data']: [ok |-> FALSE] when a loop raises
\* TypeError on a value that cannot be iterated.
RECURSIVE Groups(_)
Groups(entries) ==
    IF entries = <<>> THEN [ok |-> TRUE, products |-> <<>>]
    ELSE LET keyword_data == Head(entries)
             skip == ~(keyword_data.t = "dict" /\ "results" \in DOMAIN keyword_data.d)
                     /\ keyword_data.t # "list"
             keyword_results == IF keyword_data.t = "dict"
                                THEN keyword_data.d.results ELSE keyword_data
             rest == Groups(Tail(entries))
         IN  IF skip THEN rest
             ELSE IF ~Iterable(keyword_results) \/ ~rest.ok
                  THEN [ok |-> FALSE, products |-> <<>>]
                  ELSE [ok |-> TRUE,
                        products |-> ProductsOf(Elements(keyword_results))
                                     \o rest.products]

\* `'snapshot_id' in raw_data`; on a number or null Python raises TypeError
HasMarker(raw_data) ==
    CASE raw_data.t = "dict" -> "snapshot_id" \in DOMAIN raw_data.d
      [] raw_data.t = "list" -> \E i \in 1..Len(raw_data.l) :
                                    raw_data.l[i] = JStr("snapshot_id")
      [] raw_data.t = "str" -> Contains(raw_data.s, "snapshot_id")
      [] OTHER -> FALSE

\* BrightDataService.parse_products: [raised |-> TRUE] when the marker test
\* itself raises (it stands before the try block), else the product list.
parse_products(raw_data) ==
    IF raw_data.t \notin {"dict", "list", "str"}
    THEN [raised |-> TRUE, products |-> <<>>]
    ELSE IF HasMarker(raw_data)
    THEN [raised |-> FALSE, products |-> <<>>]
    ELSE IF raw_data.t # "dict"                   \* raw_data.keys() raises
    THEN [raised |-> FALSE, products |-> <<>>]
    ELSE IF "data" \notin DOMAIN raw_data.d
    THEN [raised |-> FALSE, products |-> <<>>]
    ELSE IF ~Iterable(raw_data.d.data)
    THEN [raised |-> FALSE, products |-> <<>>]
    ELSE LET g == Groups(Elements(raw_data.d.data))
         IN  [raised |-> FALSE, products |-> IF g.ok THEN g.products ELSE <<>>]

\* What the backend may do with the POST of search_products: err is "timeout"
\* (httpx.TimeoutException), "connect" (another transport exception) or
\* "none" (a response with a status code and a body; json tells whether
\* response.json() parses it).
SubmitAnswer(err, code, json, body) ==
    [err |-> err, code |-> code, json |-> json, body |-> body]

\* Mutant: every 2xx status is accepted.
AcceptedStatusAny2xx(code) == code >= 200 /\ code <= 299

\* if response.status_code in [200, 202]
AcceptedStatus(code) == code \in {200, 202}

Raise(error) == [outcome |-> "raise", branch |-> "none", value |-> JNull, error |-> error]
Return(branch, value) ==
    [outcome |-> "return", branch |-> branch, value |-> value, error |-> "none"]

\* Mutant: a body with a job handle is accepted under status 202 only.
search_products_HandleOnly202(keywords, ans) ==
    IF ans.err # "none" \/ ~AcceptedStatus(ans.code) \/ ~ans.json
       \/ ans.body.t # "dict"
       \/ ("snapshot_id" \in DOMAIN ans.body.d /\ ans.code # 202)
    THEN Raise("other")
    ELSE Return(IF Truthy(Get(ans.body.d, "snapshot_id", JNull))
                THEN "deferred" ELSE "sync", ans.body)

\* BrightDataService.search_products: how the call ends for the answer `ans`
\* of the backend.  branch tells which return statement is taken (line 59 or
\* line 62), value what is returned, error which raise ends the call.
search_products(keywords, ans) ==
    IF ans.err = "timeout" THEN Raise("timeout")              \* line 70
    ELSE IF ans.err # "none" THEN Raise("transport")          \* line 76
    ELSE IF ~AcceptedStatus(ans.code) THEN Raise("status")    \* line 66, then 76
    ELSE IF ~ans.json THEN Raise("json")                      \* line 52, then 76
    ELSE IF ans.body.t # "dict" THEN Raise("attribute")       \* line 55, then 76
    ELSE IF Truthy(Get(ans.body.d, "snapshot_id", JNull))
    THEN Return("deferred", ans.body)                         \* line 59
    ELSE Return("sync", ans.body)                             \* line 62

-----------------------------------------------------------------------------
(* main.scrape_products *)

Invocations == {1, 2}

NoRequest == [keywords |-> <<>>, min_rating |-> None, max_price |-> None,
              limit |-> None]
NoCriteria == [min_rating |-> 0, max_price |-> 0, limit |-> 0]
NoAnswerYet == SubmitAnswer("unsent", 0, FALSE, JNull)
NoResult == [outcome |-> "none", branch |-> "none", value |-> JNull, error |-> "none"]
NoResponse == [kind |-> "none"]

\* raise HTTPException(status_code=..., detail=...)
HTTPException(status_code, detail) ==
    [kind |-> "HTTPException", status_code |-> status_code, detail |-> detail]

\* ScrapeResponse(success=True, ...); message and timestamp are left out
ScrapeResponse(products, total_found, keywords_used) ==
    [kind |-> "ScrapeResponse", success |-> TRUE, products |-> products,
     total_found |-> total_found, keywords_used |-> keywords_used]

\* str(v) inside an f-string
StrOf(v) == IF v.t = "str" THEN v.s ELSE "None"

\* The dict of lines 100-108
ProcessingResponse(snapshot_id, keywords_used) ==
    [kind |-> "dict", success |-> TRUE,
     message |-> "Scraping job created successfully",
     snapshot_id |-> snapshot_id, status |-> "processing",
     fetch_url |-> "http://localhost:8000/snapshot/" \o StrOf(snapshot_id),
     keywords_used |-> keywords_used]

\* len(request.keywords) > 10
MaxKeywords == 10

\* Lines 76-78: request parameters or defaults
ResolvedCriteria(req) ==
    [min_rating |-> OrDefault(req.min_rating, MIN_RATING),
     max_price |-> OrDefault(req.max_price, MAX_PRICE),
     limit |-> OrDefault(req.limit, TOP_PRODUCTS_LIMIT)]

\* Lines 69-88: the detail of the HTTPException raised, "" when none is
ValidationError(req) ==
    LET c == ResolvedCriteria(req)
    IN  IF req.keywords = <<>> THEN "Keywords list cannot be empty"
        ELSE IF Len(req.keywords) > MaxKeywords
        THEN "Maximum 10 keywords allowed per request"
        ELSE IF c.min_rating < 0 \/ c.min_rating > 50
        THEN "Rating must be between 0 and 5"
        ELSE IF c.max_price <= 0 THEN "Max price must be greater than 0"
        ELSE IF c.limit <= 0 \/ c.limit > 50 THEN "Limit must be between 1 and 50"
        ELSE ""

\* Mutant: the check of line 95 tests for the wrong type.
IsDeferredWrongType(raw_data) == raw_data.t = "list" /\ HasMarker(raw_data)

\* Line 95: isinstance(raw_data, dict) and 'snapshot_id' in raw_data
IsDeferred(raw_data) ==
    raw_data.t = "dict" /\ "snapshot_id" \in DOMAIN raw_data.d

\* Mutant: the inner handler catches the timeout only.
CaughtByFallbackTimeoutOnly(error) == error = "timeout"

\* Line 112: `except Exception` catches whatever search_products or
\* parse_products raised
CaughtByFallback(error) == TRUE

\* The requests drawn.  Ratings in tenths, prices in thousandths.
TenKeywords == [i \in 1..10 |-> "hammer"]
ElevenKeywords == [i \in 1..11 |-> "hammer"]
KeywordLists == {<<>>, <<"tap">>, <<"Wrench">>, <<"drill">>,
                 <<"drill", "precision">>, TenKeywords, ElevenKeywords}
MinRatings == {None, Some(-1), Some(0), Some(44), Some(50), Some(51)}
MaxPrices == {None, Some(-1000), Some(0), Some(20000), Some(40000)}
Limits == {None, Some(-1), Some(0), Some(1), Some(2), Some(50), Some(51)}
Requests == [keywords : KeywordLists, min_rating : MinRatings,
             max_price : MaxPrices, limit : Limits]

\* The raw records and bodies the backend is let to send.
RawItemA == JDict([title |-> JStr("Tap Set"), url |-> JStr("https://a/1"),
                   price |-> JStr("$12.00"), rating |-> JFloat(46)])
RawItemB == JDict([name |-> JStr("Die"), link |-> JStr("https://a/2"),
                   price_text |-> JStr("18,75"), stars |-> JStr("4.1 out of 5 stars"),
                   reviews |-> JStr("1,234 ratings")])
RawItemC == JDict([title |-> JStr("No link")])
RawItemD == JDict([title |-> JStr("Old Tap"), url |-> JStr("https://a/4"),
                   price |-> JStr("$5.00"), rating |-> JFloat(39)])
SubmitBodies == {
    JDict([snapshot_id |-> JStr("s_abc123")]),
    JDict([snapshot_id |-> JNull]),
    JDict([data |-> JList(<<JDict([keyword |-> JStr("tap"),
                                   results |-> JList(<<RawItemA, RawItemC, RawItemB>>)])>>)]),
    JDict([data |-> JList(<<JList(<<RawItemB>>), JInt(7)>>)]),
    JDict([data |-> JList(<<JList(<<RawItemD, RawItemA>>)>>)]),
    JDict(<<>>),
    JList(<<RawItemA>>) }
SubmitCodes == {200, 201, 202, 204, 404, 500}
SubmitAnswers ==
    {SubmitAnswer("timeout", 0, FALSE, JNull), SubmitAnswer("connect", 0, FALSE, JNull)}
    \cup {SubmitAnswer("none", c, TRUE, b) : c \in SubmitCodes, b \in SubmitBodies}
    \cup {SubmitAnswer("none", c, FALSE, JStr("<html>")) : c \in SubmitCodes}

ScrapeInit ==
    /\ scrapePc = [i \in Invocations |-> "idle"]
    /\ request = [i \in Invocations |-> NoRequest]
    /\ criteria = [i \in Invocations |-> NoCriteria]
    /\ submitAnswer = [i \in Invocations |-> NoAnswerYet]
    /\ submitResult = [i \in Invocations |-> NoResult]
    /\ all_products = [i \in Invocations |-> <<>>]
    /\ calls = [i \in Invocations |-> <<>>]
    /\ response = [i \in Invocations |-> NoResponse]
    /\ mockProducts = mock_products

\* POST /scrape: the handler is entered with a request the framework parsed.
ScrapeCall(i) ==
    /\ scrapePc[i] = "idle"
    /\ \E req \in Requests : request' = [request EXCEPT ![i] = req]
    /\ scrapePc' = [scrapePc EXCEPT ![i] = "entered"]
    /\ UNCHANGED <<criteria, submitAnswer, submitResult, all_products, calls, response>>
    /\ UNCHANGED <<mockProducts, pollVars, filterVars, parseVars, snapVars, priceVars,
                 clientVars>>

\* Mutant: the parameters are validated after the search was sent.
ScrapeValidateAfterSearch(i) ==
    /\ scrapePc[i] = "entered"
    /\ calls' = [calls EXCEPT ![i] = Append(@, "search_products")]
    /\ IF ValidationError(request[i]) # ""
       THEN /\ response' = [response EXCEPT
                               ![i] = HTTPException(400, ValidationError(request[i]))]
            /\ scrapePc' = [scrapePc EXCEPT ![i] = "done"]
            /\ UNCHANGED criteria
       ELSE /\ criteria' = [criteria EXCEPT ![i] = ResolvedCriteria(request[i])]
            /\ scrapePc' = [scrapePc EXCEPT ![i] = "primary"]
            /\ UNCHANGED response
    /\ UNCHANGED <<request, submitAnswer, submitResult, all_products>>
    /\ UNCHANGED <<mockProducts, pollVars, filterVars, parseVars, snapVars, priceVars,
                 clientVars>>

\* Lines 65-88: validation and the resolution of the criteria.
ScrapeValidate(i) ==
    /\ scrapePc[i] = "entered"
    /\ IF ValidationError(request[i]) # ""
       THEN /\ response' = [response EXCEPT
                               ![i] = HTTPException(400, ValidationError(request[i]))]
            /\ scrapePc' = [scrapePc EXCEPT ![i] = "done"]
            /\ UNCHANGED criteria
       ELSE /\ criteria' = [criteria EXCEPT ![i] = ResolvedCriteria(request[i])]
            /\ scrapePc' = [scrapePc EXCEPT ![i] = "submit"]
            /\ UNCHANGED response
    /\ UNCHANGED <<request, submitAnswer, submitResult, all_products, calls>>
    /\ UNCHANGED <<mockProducts, pollVars, filterVars, parseVars, snapVars, priceVars,
                 clientVars>>

\* Line 92: await brightdata_service.search_products(request.keywords)
ScrapeSubmit(i) ==
    /\ scrapePc[i] = "submit"
    /\ \E ans \in SubmitAnswers :
        /\ submitAnswer' = [submitAnswer EXCEPT ![i] = ans]
        /\ submitResult' = [submitResult EXCEPT
                               ![i] = search_products(request[i].keywords, ans)]
    /\ calls' = [calls EXCEPT ![i] = Append(@, "search_products")]
    /\ scrapePc' = [scrapePc EXCEPT ![i] = "primary"]
    /\ UNCHANGED <<request, criteria, all_products, response>>
    /\ UNCHANGED <<mockProducts, pollVars, filterVars, parseVars, snapVars, priceVars,
                 clientVars>>

\* Lines 92-115 after the await: the exception goes to the handler of line
\* 112 (or past it, to line 140); a job handle is returned to the caller; a
\* synchronous result is parsed.
ScrapePrimary(i) ==
    /\ scrapePc[i] = "primary"
    /\ LET r == submitResult[i] IN
       IF r.outcome = "raise"
       THEN IF CaughtByFallback(r.error)
            THEN /\ scrapePc' = [scrapePc EXCEPT ![i] = "fallback"]
                 /\ UNCHANGED <<all_products, calls, response>>
            ELSE /\ scrapePc' = [scrapePc EXCEPT ![i] = "done"]
                 /\ response' = [response EXCEPT
                                    ![i] = HTTPException(500, "Internal server error")]
                 /\ UNCHANGED <<all_products, calls>>
       ELSE IF IsDeferred(r.value)
       THEN /\ scrapePc' = [scrapePc EXCEPT ![i] = "done"]
            /\ response' = [response EXCEPT
                               ![i] = ProcessingResponse(r.value.d.snapshot_id,
                                                         request[i].keywords)]
            /\ UNCHANGED <<all_products, calls>>
       ELSE /\ calls' = [calls EXCEPT ![i] = Append(@, "parse_products")]
            /\ IF parse_products(r.value).raised
               THEN /\ scrapePc' = [scrapePc EXCEPT ![i] = "fallback"]
                    /\ UNCHANGED all_products
               ELSE /\ scrapePc' = [scrapePc EXCEPT ![i] = "filter"]
                    /\ all_products' = [all_products EXCEPT
                                           ![i] = parse_products(r.value).products]
            /\ UNCHANGED response
    /\ UNCHANGED <<request, criteria, submitAnswer, submitResult>>
    /\ UNCHANGED <<mockProducts, pollVars, filterVars, parseVars, snapVars, priceVars,
                 clientVars>>

\* Mutant: the handler of line 112 sends the search again.
ScrapeFallbackRetriesPrimary(i) ==
    /\ scrapePc[i] = "fallback"
    /\ scrapePc' = [scrapePc EXCEPT ![i] = "submit"]
    /\ UNCHANGED <<request, criteria, submitAnswer, submitResult, all_products,
                   calls, response>>
    /\ UNCHANGED <<mockProducts, pollVars, filterVars, parseVars, snapVars, priceVars,
                 clientVars>>

\* Mutant: the fallback takes the records it returns out of the shared list.
ScrapeFallbackConsumesShared(i) ==
    /\ scrapePc[i] = "fallback"
    /\ all_products' = [all_products EXCEPT
           ![i] = mock_parse_products(mock_search_products(request[i].keywords))]
    /\ mockProducts' = MockMatches(mockProducts, <<"wrench">>)
    /\ calls' = [calls EXCEPT
           ![i] = @ \o <<"mock.search_products", "mock.parse_products">>]
    /\ scrapePc' = [scrapePc EXCEPT ![i] = "filter"]
    /\ UNCHANGED <<request, criteria, submitAnswer, submitResult, response>>
    /\ UNCHANGED <<pollVars, filterVars, parseVars, snapVars, priceVars, clientVars>>

\* Lines 113-115: the fallback source
ScrapeFallback(i) ==
    /\ scrapePc[i] = "fallback"
    /\ all_products' = [all_products EXCEPT
           ![i] = mock_parse_products(mock_search_products(request[i].keywords))]
    /\ calls' = [calls EXCEPT
           ![i] = @ \o <<"mock.search_products", "mock.parse_products">>]
    /\ scrapePc' = [scrapePc EXCEPT ![i] = "filter"]
    /\ UNCHANGED <<request, criteria, submitAnswer, submitResult, response>>
    /\ UNCHANGED <<mockProducts, pollVars, filterVars, parseVars, snapVars, priceVars,
                 clientVars>>

\* Lines 118-136: filter, rank and respond
ScrapeFilter(i) ==
    /\ scrapePc[i] = "filter"
    /\ response' = [response EXCEPT ![i] =
           ScrapeResponse(filter_and_rank_products(all_products[i],
                              Some(criteria[i].min_rating),
                              Some(criteria[i].max_price),
                              Some(criteria[i].limit)),
                          Len(all_products[i]), request[i].keywords)]
    /\ calls' = [calls EXCEPT ![i] = Append(@, "filter_and_rank_products")]
    /\ scrapePc' = [scrapePc EXCEPT ![i] = "done"]
    /\ UNCHANGED <<request, criteria, submitAnswer, submitResult, all_products>>
    /\ UNCHANGED <<mockProducts, pollVars, filterVars, parseVars, snapVars, priceVars,
                 clientVars>>

ScrapeStep(i) ==
    \/ ScrapeCall(i)
    \/ ScrapeValidate(i)
    \/ ScrapeSubmit(i)
    \/ ScrapePrimary(i)
    \/ ScrapeFallback(i)
    \/ ScrapeFilter(i)

-----------------------------------------------------------------------------
(* ProductFilterService.filter_and_rank_products called on its own *)

NoCall == [called |-> FALSE]
NotReturned == [returned |-> FALSE]

\* A Product as the filter reads it: title, price and rating
Listed(title, price, rating) ==
    Product(title, "https://a/" \o title, "", price, rating, JNull, JNull, JNull)

\* The products drawn: equal ratings with different prices, a rating below
\* 4.0, the same price written in two ways, a price of zero and a price that
\* is no number.
FilterPool == {Listed("P1", "$45.99", 45), Listed("P2", "$18.75", 45),
               Listed("P3", "$5.00", 39), Listed("P4", "18,75", 45),
               Listed("P5", "$0.00", 45), Listed("P6", "N/A", 47)}
MaxProducts == 3
ProductLists == UNION {[1..n -> FilterPool] : n \in 0..MaxProducts}

\* The criteria drawn, all inside the ranges scrape_products validates
FilterMinRatings == {None, Some(0), Some(40), Some(46)}
FilterMaxPrices == {None, Some(20000), Some(50000)}
FilterLimits == {None, Some(1), Some(2), Some(50)}

FilterCalls == [called : {TRUE}, products : ProductLists,
                min_rating : FilterMinRatings, max_price : FilterMaxPrices,
                limit : FilterLimits]

FilterIdle == filterCall = NoCall /\ filterReturn = NotReturned

FilterInit == filterCall \in FilterCalls /\ filterReturn = NotReturned

\* The call runs to its return statement (it has no await).
FilterRun ==
    /\ filterCall.called
    /\ ~filterReturn.returned
    /\ filterReturn' = [returned |-> TRUE,
                        products |-> filter_and_rank_products(
                            filterCall.products, filterCall.min_rating,
                            filterCall.max_price, filterCall.limit)]
    /\ UNCHANGED filterCall
    /\ UNCHANGED <<pollVars, scrapeVars, parseVars, snapVars, priceVars, clientVars>>

-----------------------------------------------------------------------------
(* BrightDataService.parse_products and the fallback parser called on their
   own *)

\* The raw records drawn.  Every value is one on which the Product model
\* decides alike whatever the pydantic version (a string for a string field,
\* a list where no list is accepted).
RawBare == JDict([title |-> JStr("X"), url |-> JStr("Y")])
RawEmpty == JDict(<<>>)
RawNegative == JDict([title |-> JStr("Neg"), url |-> JStr("https://a/5"),
                      rating |-> JFloat(-15)])
RawNegativeText == JDict([title |-> JStr("NegText"), url |-> JStr("https://a/6"),
                          stars |-> JStr("-2 stars")])
RawImageList == JDict([title |-> JStr("Img"), url |-> JStr("https://a/7"),
                       image |-> JList(<<JStr("a.jpg")>>)])
RawRatingList == JDict([title |-> JStr("Rt"), url |-> JStr("https://a/8"),
                        rating |-> JList(<<JFloat(45)>>)])
RawUnparsedText == JDict([title |-> JStr("Bad"), url |-> JStr("https://a/9"),
                         rating |-> JStr("n/a"), reviews |-> JStr("many")])
RawText == JStr("oops")
RawNullTitle == JDict([title |-> JNull, name |-> JStr("Named"),
                       url |-> JStr("https://a/10")])
RawNullAsin == JDict([title |-> JStr("Ids"), url |-> JStr("https://a/11"),
                      asin |-> JNull, product_id |-> JStr("B01")])

RawItems == {RawItemA, RawItemB, RawItemC, RawBare, RawEmpty, RawNegative,
             RawNegativeText, RawImageList, RawRatingList, RawUnparsedText,
             RawText, RawNullTitle, RawNullAsin}
MaxBatch == 3
Batches == UNION {[1..n -> RawItems] : n \in 0..MaxBatch}

\* The two forms of a keyword's results that parse_products reads: an object
\* with the key 'results', or the list itself
Shapes == {"results", "list"}

FallbackKeywords == {<<"tap">>, <<"Wrench">>, <<"drill">>, <<"drill", "precision">>}

\* A call of the primary parser on a batch in one of the two forms, or of the
\* fallback source and its parser for some keywords
ParseCalls ==
    [called : {TRUE}, parser : {"primary"}, items : Batches, shape : Shapes,
     keywords : {<<"tap">>}]
    \cup [called : {TRUE}, parser : {"fallback"}, items : {<<>>},
          shape : {"results"}, keywords : FallbackKeywords]

\* The payload that carries the batch
PayloadOf(call) ==
    JDict([data |-> JList(<<IF call.shape = "results"
                            THEN JDict([keyword |-> JStr(call.keywords[1]),
                                        results |-> JList(call.items)])
                            ELSE JList(call.items)>>)])

ParseIdle == parseCall = NoCall /\ parseReturn = NotReturned

ParseInit == parseCall \in ParseCalls /\ parseReturn = NotReturned

\* parse_products on the payload, with what _extract_product_data returned
\* for each record; or the fallback source parsed by its own parser.
ParseRun ==
    /\ parseCall.called
    /\ ~parseReturn.returned
    /\ parseReturn' =
           IF parseCall.parser = "primary"
           THEN [returned |-> TRUE,
                 products |-> parse_products(PayloadOf(parseCall)).products,
                 extracted |-> [k \in 1..Len(parseCall.items) |->
                                    _extract_product_data(parseCall.items[k])]]
           ELSE [returned |-> TRUE,
                 products |-> mock_parse_products(
                                  mock_search_products(parseCall.keywords)),
                 extracted |-> <<>>]
    /\ UNCHANGED parseCall
    /\ UNCHANGED <<pollVars, scrapeVars, filterVars, snapVars, priceVars, clientVars>>

\* parse_products called on whole payloads.  The entries of `data` drawn: a
\* map with `results`, a flat list, a map with an empty `results`, and
\* entries of neither form (a number, a text, a map without `results`); and
\* maps whose `results` is null or a number.
DataEntries ==
    {JDict([keyword |-> JStr("tap"), results |-> JList(<<RawItemA, RawItemC>>)]),
     JList(<<RawItemB>>),
     JDict([keyword |-> JStr("die"), results |-> JList(<<>>)]),
     JInt(7),
     JStr("oops"),
     JDict([keyword |-> JStr("tap")]),
     JDict([keyword |-> JStr("tap"), results |-> JNull]),
     JDict([results |-> JInt(3)])}

MaxEntries == 3

\* The payloads drawn: `data` with up to MaxEntries entries, with and without
\* a job handle beside it, and a map without `data`
Payloads ==
    LET lists == UNION {[1..n -> DataEntries] : n \in 0..MaxEntries}
    IN  {JDict([data |-> JList(es)]) : es \in lists}
        \cup {JDict([snapshot_id |-> JStr("s_abc123"), data |-> JList(es)]) :
                  es \in {es \in lists : Len(es) <= 1}}
        \cup {JDict(<<>>)}

PayloadRun ==
    /\ parseCall = NoCall
    /\ \E p \in Payloads :
        /\ parseCall' = [called |-> TRUE, parser |-> "payload", raw_data |-> p]
        /\ parseReturn' = [returned |-> TRUE,
                           raised |-> parse_products(p).raised,
                           products |-> parse_products(p).products]
    /\ UNCHANGED <<pollVars, scrapeVars, filterVars, snapVars, priceVars, clientVars>>

-----------------------------------------------------------------------------
(* main.get_snapshot *)

NoSnapshotAnswer == SubmitAnswer("unsent", 0, FALSE, JNull)

\* What the backend may do with the GET of the snapshot: a timeout, a 200
\* answer with any of the payloads a submit can carry, a 200 answer that is
\* no JSON, and the answers of a snapshot that is not ready or not known.
SnapshotCodes == {200, 202, 404}
SnapshotAnswers ==
    {SubmitAnswer("timeout", 0, FALSE, JNull)}
    \cup {SubmitAnswer("none", 200, TRUE, b) : b \in SubmitBodies}
    \cup {SubmitAnswer("none", 200, FALSE, JStr("<html>"))}
    \cup {SubmitAnswer("none", c, TRUE, JDict([status |-> JStr("running")])) :
              c \in SnapshotCodes \ {200}}

SnapInit ==
    /\ snapPc = "idle"
    /\ snapId = ""
    /\ snapAnswer = NoSnapshotAnswer
    /\ snapProducts = <<>>
    /\ snapCalls = <<>>
    /\ snapResponse = NoResponse

\* GET /snapshot/{snapshot_id} with a handle that an invocation of
\* scrape_products has returned to the caller.
SnapCall ==
    /\ snapPc = "idle"
    /\ \E i \in Invocations :
        /\ scrapePc[i] = "done"
        /\ response[i].kind = "dict"
        /\ snapId' = StrOf(response[i].snapshot_id)
    /\ snapPc' = "fetch"
    /\ UNCHANGED <<snapAnswer, snapProducts, snapCalls, snapResponse>>
    /\ UNCHANGED <<pollVars, scrapeVars, filterVars, parseVars, priceVars, clientVars>>

\* Line 187: await client.get(snapshot_url, headers=headers)
SnapFetch ==
    /\ snapPc = "fetch"
    /\ \E ans \in SnapshotAnswers : snapAnswer' = ans
    /\ snapCalls' = Append(snapCalls, "client.get")
    /\ snapPc' = "fetched"
    /\ UNCHANGED <<snapId, snapProducts, snapResponse>>
    /\ UNCHANGED <<pollVars, scrapeVars, filterVars, parseVars, priceVars, clientVars>>

\* Lines 187-222 after the await: an exception of the GET, of response.json()
\* or of parse_products goes to the handler of line 220; a status other than
\* 200 is raised as it is; a 200 payload is parsed, filtered with the
\* configured criteria and returned.
SnapFinish ==
    /\ snapPc = "fetched"
    /\ snapPc' = "done"
    /\ LET ans == snapAnswer IN
       IF ans.err # "none" \/ (ans.code = 200 /\ ~ans.json)
       THEN /\ snapResponse' = HTTPException(500, "Failed to fetch snapshot")
            /\ UNCHANGED <<snapProducts, snapCalls>>
       ELSE IF ans.code # 200
       THEN /\ snapResponse' = HTTPException(ans.code, "Bright Data snapshot error")
            /\ UNCHANGED <<snapProducts, snapCalls>>
       ELSE IF parse_products(ans.body).raised
       THEN /\ snapResponse' = HTTPException(500, "Failed to fetch snapshot")
            /\ snapCalls' = Append(snapCalls, "parse_products")
            /\ UNCHANGED snapProducts
       ELSE LET parsed == parse_products(ans.body).products IN
            /\ snapProducts' = parsed
            /\ snapCalls' = snapCalls \o <<"parse_products", "filter_and_rank_products">>
            /\ snapResponse' =
                   ScrapeResponse(filter_and_rank_products(parsed, Some(MIN_RATING),
                                      Some(MAX_PRICE), Some(TOP_PRODUCTS_LIMIT)),
                                  Len(parsed), <<>>)
    /\ UNCHANGED <<snapId, snapAnswer>>
    /\ UNCHANGED <<pollVars, scrapeVars, filterVars, parseVars, priceVars, clientVars>>

-----------------------------------------------------------------------------
(* ProductFilterService._extract_price_value called on its own *)

PriceIdle ==
    /\ priceCall = NoCall
    /\ priceReturn = NotReturned

\* The price strings drawn: every string of up to MaxPriceLen characters
\* over digits, both separators and a currency sign, and longer examples.
MaxPriceLen == 4

RECURSIVE PriceStrings(_)
PriceStrings(n) ==
    IF n = 0
    THEN {"", "$45.99", "1,234.56", "18,75", "1,234", "5,000", "$9,999",
          "12,345", "1,234,567", "USD 7.5", "N/A"}
    ELSE PriceStrings(n - 1)
         \cup {s \o c : s \in {t \in PriceStrings(n - 1) : Len(t) = n - 1},
                        c \in {"1", "5", ",", ".", "$"}}

PriceRun ==
    /\ priceCall = NoCall
    /\ \E s \in PriceStrings(MaxPriceLen) :
        /\ priceCall' = [called |-> TRUE, price_str |-> s]
        /\ priceReturn' = [returned |-> TRUE, value |-> _extract_price_value(s)]
    /\ UNCHANGED <<pollVars, scrapeVars, filterVars, parseVars, snapVars, clientVars>>

-----------------------------------------------------------------------------
(* hs_client: chat peers on one side, the house guide agent on the other *)

ClientIdle ==
    /\ to_addr = ""
    /\ reply_peer = ""
    /\ chatCount = 0
    /\ forwarded = {}
    /\ answers = {}
    /\ delivered = {}

Peers == {"peer1", "peer2"}

\* The address of the house guide agent, when the environment holds one
HOUSE_GUIDE_ADDRESS == "agent1guide"

MaxChats == 3

\* A message the client has sent to a chat peer.  `id` numbers the chat
\* message it belongs to and `origin` is the peer that sent that chat
\* message: both are history, the messages of the code carry neither (nor
\* do the requests and the answers, where the same two fields are kept).
Delivery(to, kind, id, origin) == [to |-> to, kind |-> kind, id |-> id, origin |-> origin]

\* handle_message: a ChatMessage from the peer `sender` whose non-blank
\* texts are `texts`.  It is acknowledged; without a text nothing else
\* happens; without an address the sender is told so; else the sender is
\* stored under reply_peer and the prompt is forwarded.
handle_message(sender, texts) ==
    /\ chatCount < MaxChats
    /\ chatCount' = chatCount + 1
    /\ LET id == chatCount + 1
           ack == Delivery(sender, "ChatAcknowledgement", id, sender)
       IN  IF texts = <<>>
           THEN /\ delivered' = delivered \cup {ack}
                /\ UNCHANGED <<reply_peer, forwarded>>
           ELSE IF to_addr = ""
           THEN /\ delivered' = delivered
                       \cup {ack, Delivery(sender, "ChatMessage", id, sender)}
                /\ UNCHANGED <<reply_peer, forwarded>>
           ELSE /\ delivered' = delivered \cup {ack}
                /\ reply_peer' = sender
                /\ forwarded' = forwarded
                       \cup {[id |-> id, origin |-> sender, prompt |-> texts[1],
                              transcript |-> IF Len(texts) > 1 THEN texts[2]
                                             ELSE "None"]}
    /\ UNCHANGED <<to_addr, answers>>
    /\ UNCHANGED <<pollVars, scrapeVars, filterVars, parseVars, snapVars, priceVars>>

\* hs_agent.handle_tutorial: the house guide answers one forwarded request,
\* to its sender (the client), with a GenerateResponse or an ErrorResponse.
handle_tutorial ==
    /\ \E r \in forwarded, kind \in {"GenerateResponse", "ErrorResponse"} :
        /\ forwarded' = forwarded \ {r}
        /\ answers' = answers \cup {[id |-> r.id, origin |-> r.origin, kind |-> kind]}
    /\ UNCHANGED <<to_addr, reply_peer, chatCount, delivered>>
    /\ UNCHANGED <<pollVars, scrapeVars, filterVars, parseVars, snapVars, priceVars>>

\* peer = ctx.storage.get("reply_peer") or sender
ReplyPeer(sender) == IF reply_peer # "" THEN reply_peer ELSE sender

\* handle_tutorial_ok: a GenerateResponse arrives and is sent on as a chat
\* message.
handle_tutorial_ok ==
    /\ \E a \in answers :
        /\ a.kind = "GenerateResponse"
        /\ answers' = answers \ {a}
        /\ delivered' = delivered
               \cup {Delivery(ReplyPeer(to_addr), "ChatMessage", a.id, a.origin)}
    /\ UNCHANGED <<to_addr, reply_peer, chatCount, forwarded>>
    /\ UNCHANGED <<pollVars, scrapeVars, filterVars, parseVars, snapVars, priceVars>>

\* handle_tutorial_err: an ErrorResponse arrives and is sent on as a chat
\* message.
handle_tutorial_err ==
    /\ \E a \in answers :
        /\ a.kind = "ErrorResponse"
        /\ answers' = answers \ {a}
        /\ delivered' = delivered
               \cup {Delivery(ReplyPeer(to_addr), "ChatMessage", a.id, a.origin)}
    /\ UNCHANGED <<to_addr, reply_peer, chatCount, forwarded>>
    /\ UNCHANGED <<pollVars, scrapeVars, filterVars, parseVars, snapVars, priceVars>>

-----------------------------------------------------------------------------
(* Specifications *)

Init ==
    PollInit /\ ScrapeInit /\ FilterIdle /\ ParseIdle /\ SnapInit /\ PriceIdle
    /\ ClientIdle

PollNext == PollStart \/ PollQuery \/ PollSleep

\* One call of _poll_snapshot
PollSpec == Init /\ [][PollNext]_vars

\* The event loop resumes the coroutine after every await: the status query
\* ends within its 300 s timeout and the sleep after 5 s.
PollFairSpec == PollSpec /\ WF_vars(PollNext)

\* One call of _poll_snapshot that its caller may cancel
CancelNext == PollNext \/ PollCancel

CancelSpec == Init /\ [][CancelNext]_vars

\* One invocation of scrape_products
ScrapeNext == ScrapeStep(1)

ScrapeSpec == Init /\ [][ScrapeNext]_vars

\* One call of filter_and_rank_products on drawn arguments
FilterNext == FilterRun

FilterSpecInit ==
    PollInit /\ ScrapeInit /\ FilterInit /\ ParseIdle /\ SnapInit /\ PriceIdle
    /\ ClientIdle

FilterSpec == FilterSpecInit /\ [][FilterNext]_vars

\* One call of each parser on a drawn batch
ParseNext == ParseRun

ParseSpecInit ==
    PollInit /\ ScrapeInit /\ FilterIdle /\ ParseInit /\ SnapInit /\ PriceIdle
    /\ ClientIdle

ParseSpec == ParseSpecInit /\ [][ParseNext]_vars

\* Two invocations of scrape_products on the one event loop, interleaved at
\* their awaits, sharing the service objects of main.py lines 37-40
ConcurrentRequests ==
    {[keywords |-> <<"tap">>, min_rating |-> None, max_price |-> None, limit |-> None],
     [keywords |-> <<"Wrench">>, min_rating |-> Some(44), max_price |-> Some(20000),
      limit |-> Some(1)],
     [keywords |-> <<>>, min_rating |-> None, max_price |-> None, limit |-> None]}

ConcurrentAnswers ==
    {SubmitAnswer("timeout", 0, FALSE, JNull),
     SubmitAnswer("none", 500, FALSE, JStr("<html>")),
     SubmitAnswer("none", 202, TRUE, JDict([snapshot_id |-> JStr("s_abc123")])),
     SubmitAnswer("none", 200, TRUE,
         JDict([data |-> JList(<<JList(<<RawItemD, RawItemA>>)>>)]))}

ConcurrentNext ==
    \E i \in Invocations :
        \/ ScrapeCall(i) /\ request'[i] \in ConcurrentRequests
        \/ ScrapeValidate(i)
        \/ ScrapeSubmit(i) /\ submitAnswer'[i] \in ConcurrentAnswers
        \/ ScrapePrimary(i)
        \/ ScrapeFallback(i)
        \/ ScrapeFilter(i)

ConcurrentSpec == Init /\ [][ConcurrentNext]_vars

\* One call of _extract_price_value on a drawn string
PriceNext == PriceRun

PriceSpec == Init /\ [][PriceNext]_vars

\* One call of parse_products on a drawn payload
PayloadNext == PayloadRun

PayloadSpec == Init /\ [][PayloadNext]_vars

\* The client between its chat peers and the house guide, with and without
\* HOUSE_GUIDE_ADDRESS in the environment
ClientSpecInit ==
    /\ PollInit /\ ScrapeInit /\ FilterIdle /\ ParseIdle /\ SnapInit /\ PriceIdle
    /\ to_addr \in {"", HOUSE_GUIDE_ADDRESS}
    /\ reply_peer = ""
    /\ chatCount = 0
    /\ forwarded = {}
    /\ answers = {}
    /\ delivered = {}

ClientNext ==
    \/ \E sender \in Peers, texts \in {<<>>, <<"fix tap">>, <<"fix tap", "transcript">>} :
           handle_message(sender, texts)
    \/ handle_tutorial
    \/ handle_tutorial_ok
    \/ handle_tutorial_err

ClientSpec == ClientSpecInit /\ [][ClientNext]_vars

\* One invocation of scrape_products, then one of get_snapshot with the
\* handle it returned
SnapshotNext == ScrapeStep(1) \/ SnapCall \/ SnapFetch \/ SnapFinish

SnapshotSpec == Init /\ [][SnapshotNext]_vars

-----------------------------------------------------------------------------
(* Claims about _poll_snapshot *)


PollEnded == pollPc \in {"returned", "raised"}

\* C1: when the first ready answer (HTTP 200, body status ready, complete or
\* done) is the k-th query and no earlier answer was terminal, the poll returns
\* that k-th body after exactly k queries and k-1 delays, and issues no query
\* afterwards.
C1_ReadyReturnedAtKthQuery ==
    /\ []((/\ queries > 0
           /\ ClassOf(lastAnswer) = "ready"
           /\ "failed" \notin seenBefore)
          => /\ pollPc = "returned"
             /\ pollResult = BodyOf(lastAnswer)
             /\ queries = attempt
             /\ queries <= max_attempts
             /\ delays = queries - 1
             /\ elapsed = poll_interval * (queries - 1))
    /\ [][pollPc = "returned" => (pollPc' = "returned" /\ queries' = queries)]_vars

\* C1 witness: the sequence [pending, pending, ready]: 3 queries, 2 delays.
C1_Witness ==
    /\ pollPc = "returned"
    /\ queries = 3
    /\ delays = 2
    /\ seenBefore = {"pending"}
    /\ pollResult = [status |-> "done", tag |-> 2]

\* C2: the poll ends under every sequence of answers, never issues more than
\* max_attempts status queries, and with every answer 'pending' it ends timed
\* out after exactly max_attempts queries.
C2_PollEndsWithinCeiling ==
    /\ [](queries <= max_attempts)
    /\ []((/\ PollEnded
           /\ seenBefore \subseteq {"pending"}
           /\ ClassOf(lastAnswer) = "pending")
          => /\ pollPc = "raised"
             /\ pollError = TimeoutMessage
             /\ queries = max_attempts)
    /\ <>PollEnded

\* C2 witness: thirty 'pending' answers, then the timeout.
C2_Witness ==
    /\ pollPc = "raised"
    /\ pollError = TimeoutMessage
    /\ queries = max_attempts
    /\ seenBefore = {"pending"}
    /\ ClassOf(lastAnswer) = "pending"

\* C3 (as claimed): a status query answered 200 with body status failed or
\* error ends the poll at that attempt with the failure: no further query, no
\* delay, and not the timed-out outcome.
C3_FailedEndsPoll ==
    (queries > 0 /\ ClassOf(lastAnswer) = "failed")
        => (pollPc = "raised" /\ pollError # TimeoutMessage /\ delays = queries - 1)

TransientClasses == {"transport", "unexpected", "processing", "pending", "other"}

\* C4: a transport error, an unexpected status code, HTTP 202 or a 200 body
\* with a non-terminal status never ends the poll before the ceiling: the
\* attempt is followed by one delay of poll_interval and then the next query,
\* and a later ready answer is still returned.
C4_TransientAnswersAreRetried ==
    /\ [][(/\ pollPc = "query"
           /\ queries' = queries + 1
           /\ ClassOf(lastAnswer') \in TransientClasses)
          => pollPc' = "sleep"]_vars
    /\ [][pollPc = "sleep"
          => /\ delays' = delays + 1
             /\ elapsed' = elapsed + poll_interval
             /\ queries' = queries
             /\ IF attempt < max_attempts
                THEN pollPc' = "query" /\ attempt' = attempt + 1
                ELSE pollPc' = "raised" /\ pollError' = TimeoutMessage]_vars
    /\ [](pollPc = "raised" => queries = max_attempts)
    /\ []((/\ queries > 0
           /\ ClassOf(lastAnswer) = "ready"
           /\ seenBefore \subseteq TransientClasses)
          => (pollPc = "returned" /\ pollResult = BodyOf(lastAnswer)))

\* C4 witness: a ready answer returned after a transport error, an unexpected
\* code, a 202 and a non-terminal status text.
C4_Witness ==
    /\ pollPc = "returned"
    /\ seenBefore = {"transport", "unexpected", "processing", "other"}
    /\ ClassOf(lastAnswer) = "ready"
    /\ pollResult = BodyOf(lastAnswer)

-----------------------------------------------------------------------------
(* Claims about search_products and scrape_products *)

\* The POST was answered by a response whose body is a JSON object
ObjectBody(ans) == ans.err = "none" /\ ans.json /\ ans.body.t = "dict"

\* ... that carries the job-handle marker
HandleBody(ans) == ObjectBody(ans) /\ "snapshot_id" \in DOMAIN ans.body.d

\* C5: a submit response whose body contains the job-handle marker
\* snapshot_id is classified as deferred, under HTTP 200 as under HTTP 202:
\* the handle is surfaced and no product is extracted.
C5_HandleMeansDeferred ==
    \A i \in Invocations :
        (/\ scrapePc[i] = "done"
         /\ HandleBody(submitAnswer[i])
         /\ submitAnswer[i].code \in {200, 202})
        => /\ response[i].kind = "dict"
           /\ response[i].status = "processing"
           /\ response[i].snapshot_id = submitAnswer[i].body.d.snapshot_id
           /\ calls[i] = <<"search_products">>
           /\ all_products[i] = <<>>

\* C5 witness: a handle under HTTP 200 was surfaced.
C5_Witness ==
    /\ scrapePc[1] = "done"
    /\ submitAnswer[1].code = 200
    /\ HandleBody(submitAnswer[1])
    /\ response[1].kind = "dict"
    /\ response[1].snapshot_id = JStr("s_abc123")

\* C6 (as claimed): every response with a 2xx status is accepted, Deferred
\* when it bears a handle and SyncResult when not; only a timeout or a
\* non-success status fails, and a failure carries no payload.  Stated for
\* bodies that are JSON objects.
C6_Every2xxAccepted ==
    \A i \in Invocations :
        LET ans == submitAnswer[i]
            r == submitResult[i]
        IN  r.outcome # "none" =>
            /\ (ObjectBody(ans) /\ ans.code >= 200 /\ ans.code <= 299)
               => /\ r.outcome = "return"
                  /\ r.value = ans.body
                  /\ r.branch = IF Truthy(Get(ans.body.d, "snapshot_id", JNull))
                                THEN "deferred" ELSE "sync"
            /\ (r.outcome = "raise" /\ ObjectBody(ans))
               => (ans.code < 200 \/ ans.code > 299)
            /\ r.outcome = "raise" => r.value = JNull

\* C6 (amended): a response with status 200 or 202 and a JSON-object body is
\* accepted, Deferred when it bears a handle and SyncResult when not; a
\* transport error (a timeout among them) and every other status code, the
\* other 2xx codes included, is a failure; a 200 or 202 response fails only
\* when its body is not a JSON object; a failure carries no payload.
C6_Status200Or202Accepted ==
    \A i \in Invocations :
        LET ans == submitAnswer[i]
            r == submitResult[i]
        IN  r.outcome # "none" =>
            /\ (ObjectBody(ans) /\ ans.code \in {200, 202})
               => /\ r.outcome = "return"
                  /\ r.value = ans.body
                  /\ r.branch = IF Truthy(Get(ans.body.d, "snapshot_id", JNull))
                                THEN "deferred" ELSE "sync"
            /\ (ans.err # "none" \/ ans.code \notin {200, 202}) => r.outcome = "raise"
            /\ ans.err = "timeout" => r.error = "timeout"
            /\ (ans.err = "none" /\ ans.code \notin {200, 202}) => r.error = "status"
            /\ r.outcome = "raise"
               => /\ r.value = JNull
                  /\ \/ ans.err # "none"
                     \/ ans.code \notin {200, 202}
                     \/ ~ObjectBody(ans)

\* C6 witness: a 204 response bearing a handle was refused.
C6_Witness ==
    /\ submitResult[1].outcome = "raise"
    /\ submitResult[1].error = "status"
    /\ submitAnswer[1].code = 204
    /\ HandleBody(submitAnswer[1])

\* A supplied value outside the ranges of the interface: keywords 1..10
\* entries, minRating in [0,5], maxPrice > 0, limit in [1,50]
OutOfRange(req) ==
    \/ Len(req.keywords) = 0
    \/ Len(req.keywords) > 10
    \/ req.min_rating # None /\ (req.min_rating[1] < 0 \/ req.min_rating[1] > 50)
    \/ req.max_price # None /\ req.max_price[1] <= 0
    \/ req.limit # None /\ (req.limit[1] < 1 \/ req.limit[1] > 50)

\* The request's criteria: the supplied value, the configured default for an
\* omitted one
RequestCriterion(x, default) == IF x = None THEN default ELSE x[1]

\* The filter stage at given criteria: rating and price thresholds, rank, top n
FilterStage(records, min_rating, max_price, limit) ==
    SliceTo(Sorted(FilterByPrice(FilterByRating(records, min_rating), max_price)),
            limit)

\* C7: when the primary submit raises (timeout, status, transport fault), a
\* validated request still ends in a success response whose products are the
\* fallback source's records passed through the filter stage with the
\* request's criteria.
C7_PrimaryFailureFallsBack ==
    \A i \in Invocations :
        (scrapePc[i] = "done" /\ submitResult[i].outcome = "raise")
        => LET req == request[i]
               records == mock_parse_products(mock_search_products(req.keywords))
           IN  /\ response[i].kind = "ScrapeResponse"
               /\ response[i].success
               /\ calls[i] = <<"search_products", "mock.search_products",
                               "mock.parse_products", "filter_and_rank_products">>
               /\ response[i].total_found = Len(records)
               /\ response[i].keywords_used = req.keywords
               /\ ~OutOfRange(req)
                  => response[i].products =
                         FilterStage(records,
                             RequestCriterion(req.min_rating, MIN_RATING),
                             RequestCriterion(req.max_price, MAX_PRICE),
                             RequestCriterion(req.limit, TOP_PRODUCTS_LIMIT))

\* C7 witness: the backend answered 500 and the two best of the three sample
\* records were returned.
C7_Witness ==
    /\ scrapePc[1] = "done"
    /\ submitAnswer[1].code = 500
    /\ submitResult[1].error = "status"
    /\ request[1].limit = Some(2)
    /\ response[1].kind = "ScrapeResponse"
    /\ response[1].total_found = 3
    /\ Len(response[1].products) = 2
    /\ response[1].products[1].rating = 47

C9_RejectedBeforeAnyBackendCall ==
    \A i \in Invocations :
        (response[i].kind = "HTTPException" /\ response[i].status_code = 400)
        => /\ calls[i] = <<>>
           /\ submitAnswer[i] = NoAnswerYet
           /\ submitResult[i] = NoResult

\* C9 witness: a request with 11 keywords was rejected.
C9_Witness ==
    /\ scrapePc[1] = "done"
    /\ Len(request[1].keywords) = 11
    /\ response[1] = HTTPException(400, "Maximum 10 keywords allowed per request")
    /\ calls[1] = <<>>

\* C10 (as claimed): every request with an out-of-range value is rejected
\* with a validation error and never reaches the submit step.
C10_OutOfRangeRejected ==
    \A i \in Invocations :
        (scrapePc[i] \notin {"idle", "entered"} /\ OutOfRange(request[i]))
        => /\ scrapePc[i] = "done"
           /\ response[i].kind = "HTTPException"
           /\ response[i].status_code = 400
           /\ calls[i] = <<>>

-----------------------------------------------------------------------------
(* Claims about the criteria and the filter *)

\* The criteria of a request as the interface states them: the supplied
\* value, the configured default for an omitted one
RequestCriteria(req) ==
    [min_rating |-> RequestCriterion(req.min_rating, MIN_RATING),
     max_price |-> RequestCriterion(req.max_price, MAX_PRICE),
     limit |-> RequestCriterion(req.limit, TOP_PRODUCTS_LIMIT)]

\* C11 (as claimed): for a request whose supplied values are all inside the
\* valid ranges, the criteria resolved by scrape_products are the supplied
\* values, the configured default (4.0, 100.0, 5) for an omitted one, and
\* they are the values the filter applies to the products found.
C11_SuppliedCriteriaApplied ==
    \A i \in Invocations :
        (scrapePc[i] \in {"submit", "primary", "fallback", "filter", "done"}
         /\ ~OutOfRange(request[i]))
        => LET c == RequestCriteria(request[i])
           IN  /\ criteria[i] = c
               /\ response[i].kind = "ScrapeResponse"
                  => response[i].products =
                         FilterStage(all_products[i], c.min_rating, c.max_price,
                                     c.limit)

\* The criteria of a call of the filter: the supplied value, the filter's
\* default for an omitted one
CallCriteria(call) ==
    [min_rating |-> RequestCriterion(call.min_rating, filter_min_rating),
     max_price |-> RequestCriterion(call.max_price, filter_max_price),
     limit |-> RequestCriterion(call.limit, filter_top_limit)]

\* C12: for every product list and criteria in the validated ranges, the list
\* returned by filter_and_rank_products has at most `limit` entries, and every
\* entry has a rating of at least minRating and a price that parses to a
\* number not above maxPrice.
C12_OutputWithinCriteria ==
    filterReturn.returned
    => LET out == filterReturn.products
           c == CallCriteria(filterCall)
       IN  /\ Len(out) <= c.limit
           /\ \A k \in 1..Len(out) :
                  /\ out[k].rating >= c.min_rating
                  /\ _extract_price_value(out[k].price) # None
                  /\ _extract_price_value(out[k].price)[1] <= c.max_price

\* C12 witness: of three products, the one with a price that is no number
\* and the one above the maximum price were dropped.
C12_Witness ==
    /\ filterReturn.returned
    /\ filterCall.products = <<Listed("P6", "N/A", 47), Listed("P1", "$45.99", 45),
                               Listed("P2", "$18.75", 45)>>
    /\ filterCall.max_price = Some(20000)
    /\ filterCall.limit = None
    /\ filterReturn.products = <<Listed("P2", "$18.75", 45)>>

\* The products of a list with the rating and the parsed price of p, in the
\* order of the list
SameRank(list, p) ==
    SelectSeq(list, LAMBDA q : /\ q.rating = p.rating
                               /\ _extract_price_value(q.price)
                                      = _extract_price_value(p.price))

IsPrefix(a, b) == Len(a) <= Len(b) /\ a = SubSeq(b, 1, Len(a))

\* C13 (as claimed): the list returned is ordered by rating descending; of
\* two products with the same rating the one with the lower parsed price
\* comes first, whatever parsed price passes the filter; and products equal
\* in rating and parsed price keep their input order.
C13_RankedByRatingThenPrice ==
    filterReturn.returned
    => LET out == filterReturn.products
       IN  /\ \A i \in 1..Len(out) : \A j \in (i + 1)..Len(out) :
                  \/ out[i].rating > out[j].rating
                  \/ /\ out[i].rating = out[j].rating
                     /\ _extract_price_value(out[i].price) # None
                     /\ _extract_price_value(out[j].price) # None
                     /\ _extract_price_value(out[i].price)[1]
                            <= _extract_price_value(out[j].price)[1]
           /\ \A k \in 1..Len(out) :
                  IsPrefix(SameRank(out, out[k]),
                           SameRank(filterCall.products, out[k]))

\* A product qualifies under criteria c: its rating is at least the minimum
\* and its price parses to a number not above the maximum
Qualifies(p, c) ==
    /\ p.rating >= c.min_rating
    /\ _extract_price_value(p.price) # None
    /\ _extract_price_value(p.price)[1] <= c.max_price

\* Of two qualifying products, a ranks strictly before b: higher rating, or
\* the same rating and a lower parsed price
RanksBefore(a, b) ==
    \/ a.rating > b.rating
    \/ /\ a.rating = b.rating
       /\ _extract_price_value(a.price)[1] < _extract_price_value(b.price)[1]

\* The ranking of a list of qualifying products, equal ranks in input order
RECURSIVE RankInsert(_, _)
RankInsert(ranked, x) ==
    IF ranked = <<>> THEN <<x>>
    ELSE IF RanksBefore(x, Head(ranked)) THEN <<x>> \o ranked
    ELSE <<Head(ranked)>> \o RankInsert(Tail(ranked), x)

RECURSIVE Ranked(_)
Ranked(ps) ==
    IF ps = <<>> THEN <<>>
    ELSE RankInsert(Ranked(SubSeq(ps, 1, Len(ps) - 1)), ps[Len(ps)])

\* C14 (as claimed): for every product list and criteria in the validated
\* ranges, the list returned is the first `limit` entries of the ranking of
\* all the input products that qualify; a product whose price cannot be
\* parsed is not among them.
C14_ExactlyTheQualifying ==
    filterReturn.returned
    => LET c == CallCriteria(filterCall)
           ranked == Ranked(SelectSeq(filterCall.products,
                                      LAMBDA p : Qualifies(p, c)))
       IN  filterReturn.products
               = SubSeq(ranked, 1, IF c.limit < Len(ranked) THEN c.limit
                                   ELSE Len(ranked))

-----------------------------------------------------------------------------
(* Claims about the normalisation of raw records *)

\* The raw records the fallback source hands to its parser for the keywords
FallbackRecords(keywords) ==
    mock_search_products(keywords).d.data.l[1].d.results.l

\* C15: every Product that the primary parser or the fallback parser builds
\* has a non-empty title and a non-empty link, and each parser builds at most
\* as many Products as it was given raw records.
C15_TitledLinkedAndNoMoreThanRecords ==
    parseReturn.returned
    => /\ \A k \in 1..Len(parseReturn.products) :
              /\ parseReturn.products[k].title # ""
              /\ parseReturn.products[k].link # ""
       /\ Len(parseReturn.products)
              <= IF parseCall.parser = "primary" THEN Len(parseCall.items)
                 ELSE Len(FallbackRecords(parseCall.keywords))

\* C15 witness: of three raw records given to the primary parser, the one
\* without a link and the empty one gave no Product.
C15_Witness ==
    /\ parseReturn.returned
    /\ parseCall.parser = "primary"
    /\ parseCall.items = <<RawItemC, RawItemA, RawEmpty>>
    /\ Len(parseReturn.products) = 1
    /\ parseReturn.products[1].title = "Tap Set"
    /\ parseReturn.products[1].link = "https://a/1"

\* C16 (as claimed): every Product built by _extract_product_data has a
\* rating of at least 0, whatever number or text the record's rating or stars
\* field carries.
C16_RatingNeverNegative ==
    parseReturn.returned
    => \A k \in 1..Len(parseReturn.extracted) :
           parseReturn.extracted[k] # None
           => parseReturn.extracted[k][1].rating >= 0

\* The title and the link of a record after the fallback over its keys
\* (title, name; url, link, product_link): one of them is missing or empty
TitleOrLinkEmpty(item) ==
    \/ item.t # "dict"
    \/ ~Truthy(Get(item.d, "title", Get(item.d, "name", JStr(""))))
    \/ ~Truthy(Get(item.d, "url",
                   Get(item.d, "link", Get(item.d, "product_link", JStr("")))))

\* C17 (as claimed): _extract_product_data returns null if and only if the
\* resolved title or the resolved link is empty; no value or type of another
\* field makes it discard a record that has both.
C17_DiscardedOnlyForTitleOrLink ==
    parseReturn.returned
    => \A k \in 1..Len(parseCall.items) :
           (parseReturn.extracted[k] = None) <=> TitleOrLinkEmpty(parseCall.items[k])

\* The drawn records that are well-formed: an object with a title and a
\* link whose other fields are absent, null, text or numbers.  The others
\* are malformed: no object (RawText), no title or link (RawItemC, RawEmpty,
\* and RawNullTitle, whose title is null), a value that cannot be coerced
\* (RawImageList, RawRatingList).
WellFormedItems == {RawItemA, RawItemB, RawBare, RawNegative, RawNegativeText,
                    RawUnparsedText, RawNullAsin}

\* C18: in every batch, a malformed record contributes no Product and does
\* not stop the batch: the list parse_products returns is the normalisation
\* of the well-formed records, in input order.
C18_RecordFailuresIsolated ==
    (parseReturn.returned /\ parseCall.parser = "primary")
    => LET wellFormed == SelectSeq(parseCall.items,
                                   LAMBDA item : item \in WellFormedItems)
       IN  /\ \A k \in 1..Len(parseCall.items) :
                  parseCall.items[k] \notin WellFormedItems
                  => parseReturn.extracted[k] = None
           /\ Len(parseReturn.products) = Len(wellFormed)
           /\ \A k \in 1..Len(wellFormed) :
                  <<parseReturn.products[k]>> = _extract_product_data(wellFormed[k])

\* C18 witness: a record whose rating is a list stands between two
\* well-formed records, and both of them were normalised.
C18_Witness ==
    /\ parseReturn.returned
    /\ parseCall.items = <<RawItemA, RawRatingList, RawItemB>>
    /\ Len(parseReturn.products) = 2
    /\ parseReturn.products[1].title = "Tap Set"
    /\ parseReturn.products[2].title = "Die"
    /\ parseReturn.products[2].rating = 41

-----------------------------------------------------------------------------
(* Claims about get_snapshot *)

\* The response of scrape_products to a request when the backend delivers
\* the payload, an object without a job handle, as a synchronous result:
\* parse_products, then the filter with the criteria resolved for the request
SyncResponse(req, payload) ==
    LET found == parse_products(payload).products
        c == ResolvedCriteria(req)
    IN  ScrapeResponse(filter_and_rank_products(found, Some(c.min_rating),
                           Some(c.max_price), Some(c.limit)),
                       Len(found), req.keywords)

\* The GET has fetched a terminal payload: a 200 answer whose body is a JSON
\* object without a job handle
TerminalPayloadFetched ==
    /\ snapPc = "done"
    /\ snapAnswer.err = "none"
    /\ snapAnswer.code = 200
    /\ snapAnswer.json
    /\ snapAnswer.body.t = "dict"
    /\ ~HasMarker(snapAnswer.body)

\* C19 (as claimed): get_snapshot, called with the handle an invocation of
\* scrape_products has issued, returns for a terminal payload the product
\* list and the total_found that the invocation would have returned had the
\* same payload been delivered to it as a synchronous result.
C19_SnapshotEqualsMainPath ==
    TerminalPayloadFetched
    => \A i \in Invocations :
           (scrapePc[i] = "done" /\ response[i].kind = "dict")
           => LET main == SyncResponse(request[i], snapAnswer.body)
              IN  /\ snapResponse.kind = "ScrapeResponse"
                  /\ snapResponse.products = main.products
                  /\ snapResponse.total_found = main.total_found

Called(log, name) == \E k \in 1..Len(log) : log[k] = name

\* C20 (as claimed): in scrape_products and in get_snapshot alike,
\* parse_products is called on a backend payload only after the payload was
\* found to carry no job handle, so no payload that carries a job handle is
\* answered with a success response (which would list zero products).
C20_HandleCheckedBeforeParse ==
    /\ \A i \in Invocations :
           /\ Called(calls[i], "parse_products") => ~HasMarker(submitResult[i].value)
           /\ response[i].kind = "ScrapeResponse" => ~HasMarker(submitResult[i].value)
    /\ Called(snapCalls, "parse_products") => ~HasMarker(snapAnswer.body)
    /\ snapResponse.kind = "ScrapeResponse" => ~HasMarker(snapAnswer.body)

-----------------------------------------------------------------------------
(* Claims about the order of the calls in scrape_products *)

Times(log, name) == Cardinality({k \in 1..Len(log) : log[k] = name})

PrimaryFailed(i) ==
    \/ submitResult[i].outcome = "raise"
    \/ /\ Called(calls[i], "parse_products")
       /\ parse_products(submitResult[i].value).raised

\* C21: in one invocation of scrape_products the primary search is called at
\* most once and never again after it failed; the fallback search is called
\* at most once, and only after the primary search was called and the
\* primary path failed; the invocation ends with one structured response (a
\* ScrapeResponse, the processing dict or an HTTPException), which is never
\* replaced afterwards.
C21_PrimaryOnceFallbackOnce ==
    /\ [](/\ Times(calls[1], "search_products") <= 1
          /\ Times(calls[1], "mock.search_products") <= 1
          /\ Called(calls[1], "mock.search_products")
                => /\ calls[1][1] = "search_products"
                   /\ PrimaryFailed(1)
          /\ scrapePc[1] = "done"
                <=> response[1].kind \in {"ScrapeResponse", "dict", "HTTPException"}
          /\ scrapePc[1] # "done" <=> response[1] = NoResponse)
    /\ [][response[1] # NoResponse => response'[1] = response[1]]_vars

\* C21 witness: the primary search raised, the fallback was called once
\* after it, and the invocation has answered.
C21_Witness ==
    /\ scrapePc[1] = "done"
    /\ submitResult[1].outcome = "raise"
    /\ calls[1] = <<"search_products", "mock.search_products",
                    "mock.parse_products", "filter_and_rank_products">>
    /\ response[1].kind = "ScrapeResponse"

-----------------------------------------------------------------------------
(* Claims about concurrent invocations of scrape_products *)

\* What one invocation returns when it runs with no other invocation, for
\* the request `req` and the backend's answer `ans` to its POST.
AloneResponse(req, ans) ==
    LET r == search_products(req.keywords, ans)
        c == ResolvedCriteria(req)
        Answer(found) ==
            ScrapeResponse(filter_and_rank_products(found, Some(c.min_rating),
                               Some(c.max_price), Some(c.limit)),
                           Len(found), req.keywords)
        fallback == mock_parse_products(MockSearch(mock_products, req.keywords))
    IN  IF ValidationError(req) # "" THEN HTTPException(400, ValidationError(req))
        ELSE IF r.outcome = "raise" THEN Answer(fallback)
        ELSE IF IsDeferred(r.value)
        THEN ProcessingResponse(r.value.d.snapshot_id, req.keywords)
        ELSE IF parse_products(r.value).raised THEN Answer(fallback)
        ELSE Answer(parse_products(r.value).products)

\* The variables of invocation i
Own(i) == <<scrapePc[i], request[i], criteria[i], submitAnswer[i], submitResult[i],
            all_products[i], calls[i], response[i]>>

\* C22: invocations of scrape_products that overlap in time are independent:
\* the response of each is the response it would give alone for the same
\* request and the same backend answer, a step of one invocation changes
\* nothing of the other, and the records of the shared fallback source are
\* never modified.
C22_ConcurrentInvocationsIndependent ==
    /\ [](/\ mockProducts = mock_products
          /\ \A i \in Invocations :
                scrapePc[i] = "done"
                   => response[i] = AloneResponse(request[i], submitAnswer[i]))
    /\ [][\A i \in Invocations :
             Own(i)' # Own(i) => \A j \in Invocations \ {i} : Own(j)' = Own(j)]_vars

\* C22 witness: invocation 1 has answered from the fallback source while
\* invocation 2, for other keywords, has read the same source and is still
\* running.
C22_Witness ==
    /\ scrapePc[1] = "done"
    /\ scrapePc[2] = "filter"
    /\ Called(calls[1], "mock.search_products")
    /\ Called(calls[2], "mock.search_products")
    /\ request[1].keywords # request[2].keywords
    /\ response[1].kind = "ScrapeResponse"
    /\ response[1].products # <<>>
    /\ all_products[2] # all_products[1]

-----------------------------------------------------------------------------
(* Claims about the cancellation of _poll_snapshot *)

\* C23: once the caller has cancelled the call, at a status query or at a
\* delay between attempts, the call has ended with the cancellation: no
\* status query is issued afterwards, no delay is started, no body is
\* returned, and the loop's handlers have not turned the cancellation into
\* one more attempt.
C23_CancelStopsThePoll ==
    /\ [](aborted => /\ pollPc = "cancelled"
                     /\ pollResult = NoBody
                     /\ pollError = "")
    /\ [][aborted => /\ queries' = queries
                     /\ delays' = delays
                     /\ attempt' = attempt]_vars

\* C23 witnesses: the call was cancelled during its third status query,
\* after two answers and two delays.
C23_Witness ==
    /\ aborted
    /\ pollPc = "cancelled"
    /\ attempt = 3
    /\ queries = 2
    /\ delays = 2

-----------------------------------------------------------------------------
(* Claims about _extract_price_value *)

\* The characters of s that are in `chars`, in order
RECURSIVE Keep(_, _)
Keep(s, chars) ==
    IF s = "" THEN ""
    ELSE (IF Ch(s, 1) \in chars THEN Ch(s, 1) ELSE "") \o Keep(SubSeq(s, 2, Len(s)), chars)

\* The positions of the character c in s
Positions(s, c) == {i \in 1..Len(s) : Ch(s, i) = c}

\* The separator rules of the price heuristic
Separated(s) ==
    LET c == Keep(s, Digits \cup {",", "."})
        commas == Positions(c, ",")
    IN  IF commas # {} /\ Positions(c, ".") # {} THEN Keep(c, Digits \cup {"."})
        ELSE IF \E j \in commas : (\A i \in commas : i <= j) /\ Len(c) - j <= 2
        THEN ReplaceCh(c, ",", ".")
        ELSE c

\* The number a string denotes, in thousandths (further decimals are cut):
\* digits with at most one period among them; None for every other string.
Denoted(c) ==
    LET dots == Positions(c, ".")
        digits == Keep(c, Digits)
        places == IF dots = {} THEN 0 ELSE Len(c) - (CHOOSE i \in dots : TRUE)
    IN  IF Cardinality(dots) > 1 \/ Positions(c, ",") # {} \/ digits = ""
        THEN None
        ELSE IF places <= 3 THEN Some(DigitsValue(digits) * Pow10(3 - places))
        ELSE Some(DigitsValue(digits) \div Pow10(places - 3))

\* C24: _extract_price_value returns, for every price string, the number
\* that the string denotes after the separator rules (other characters
\* stripped; commas removed when a period is present too; a lone comma group
\* with at most two characters after the last comma read as the decimal
\* point), and null for the empty string and for a string that denotes no
\* number; "$45.99" gives 45.99, "1,234.56" gives 1234.56, "18,75" gives
\* 18.75 and "" gives null.
C24_SeparatorRules ==
    priceReturn.returned
    => LET s == priceCall.price_str
           v == priceReturn.value
       IN  /\ v = (IF s = "" THEN None ELSE Denoted(Separated(s)))
           /\ s = "$45.99" => v = Some(45990)
           /\ s = "1,234.56" => v = Some(1234560)
           /\ s = "18,75" => v = Some(18750)
           /\ s = "" => v = None

\* C24 witness: a string with a currency sign, a thousands comma and a
\* period has been parsed to a number.
C24_Witness ==
    /\ priceReturn.returned
    /\ priceCall.price_str = "1,234.56"
    /\ priceReturn.value = Some(1234560)

\* C25 (as claimed): a string of the form d,ddd, with no period, is read as
\* thousands-separated: "1,234" gives 1234.
C25_ThreeDigitGroupIsThousands ==
    (/\ priceReturn.returned
     /\ Len(priceCall.price_str) = 5
     /\ Positions(priceCall.price_str, ",") = {2}
     /\ Len(Keep(priceCall.price_str, Digits)) = 4)
    => priceReturn.value = Some(DigitsValue(Keep(priceCall.price_str, Digits)) * 1000)

-----------------------------------------------------------------------------
(* Claims about the candidate keys of _extract_product_data *)

\* The candidate keys of each logical field, in the order they are tried
CandidateKeys ==
    {<<"title", "name">>, <<"url", "link", "product_link">>,
     <<"price", "price_text">>, <<"rating", "stars">>,
     <<"review_count", "reviews">>, <<"asin", "product_id">>,
     <<"availability", "in_stock">>}

\* The keys of the record d that hold null while a later candidate key of
\* the same field holds a value
ShadowingNulls(d) ==
    {key \in DOMAIN d :
        /\ d[key] = JNull
        /\ \E c \in CandidateKeys : \E i, j \in 1..Len(c) :
               /\ i < j
               /\ c[i] = key
               /\ c[j] \in DOMAIN d
               /\ d[c[j]] # JNull}

WithoutShadowingNulls(item) ==
    JDict([key \in DOMAIN item.d \ ShadowingNulls(item.d) |-> item.d[key]])

\* C26 (as claimed): a candidate key that is present with a null value does
\* not stop the fallback to the next candidate key: what _extract_product_data
\* returns for a record is what it returns for the same record without those
\* null entries, where every field comes from its first present candidate.
C26_NullDoesNotStopFallback ==
    (parseReturn.returned /\ parseCall.parser = "primary")
    => \A k \in 1..Len(parseCall.items) :
           parseCall.items[k].t = "dict"
           => parseReturn.extracted[k]
                  = _extract_product_data(WithoutShadowingNulls(parseCall.items[k]))

-----------------------------------------------------------------------------
(* Claims about the entries of `data` in parse_products *)

\* What one entry of `data` contributes: the records under `results` when
\* the entry is a map with that key, its own elements when it is a list, and
\* nothing when it is neither.
Contribution(entry) ==
    IF entry.t = "dict" /\ "results" \in DOMAIN entry.d
    THEN IF entry.d.results.t = "list" THEN ProductsOf(entry.d.results.l) ELSE <<>>
    ELSE IF entry.t = "list" THEN ProductsOf(entry.l)
    ELSE <<>>

RECURSIVE Contributions(_)
Contributions(entries) ==
    IF entries = <<>> THEN <<>>
    ELSE Contribution(Head(entries)) \o Contributions(Tail(entries))

\* C27 (as claimed): parse_products returns an empty list for a map payload
\* with a job handle, and otherwise the records of every entry of `data`, in
\* order: a map with `results` contributes the records under it, a flat list
\* its own elements, and an entry of neither form nothing, without an effect
\* on what the other entries contribute.
C27_EachEntryContributes ==
    (parseReturn.returned /\ parseCall.parser = "payload")
    => LET p == parseCall.raw_data
       IN  /\ ~parseReturn.raised
           /\ HasMarker(p) => parseReturn.products = <<>>
           /\ (~HasMarker(p) /\ "data" \in DOMAIN p.d)
                 => parseReturn.products = Contributions(p.d.data.l)

\* A map whose `results` value cannot be iterated
BrokenGroup(entry) ==
    /\ entry.t = "dict"
    /\ "results" \in DOMAIN entry.d
    /\ entry.d.results.t \in {"null", "int", "float"}

\* C29 (as claimed): when one entry of `data` is a map whose `results` is
\* null or a number, the Products of the other entries are still returned.
C29_OtherGroupsKept ==
    (/\ parseReturn.returned
     /\ parseCall.parser = "payload"
     /\ ~HasMarker(parseCall.raw_data)
     /\ "data" \in DOMAIN parseCall.raw_data.d
     /\ \E k \in 1..Len(parseCall.raw_data.d.data.l) :
            BrokenGroup(parseCall.raw_data.d.data.l[k]))
    => parseReturn.products
           = Contributions(SelectSeq(parseCall.raw_data.d.data.l,
                                     LAMBDA entry : ~BrokenGroup(entry)))

-----------------------------------------------------------------------------
(* Claims about a payload that is a bare list *)

\* C28 (as claimed): when the backend answers the search with an accepted
\* status and a JSON body that is a bare list of records, search_products
\* returns the list as a synchronous result, parse_products gives the
\* records of its elements, and the invocation answers from them, not from
\* the fallback source.
C28_BareListAccepted ==
    (/\ scrapePc[1] \in {"primary", "fallback", "filter", "done"}
     /\ submitAnswer[1].err = "none"
     /\ AcceptedStatus(submitAnswer[1].code)
     /\ submitAnswer[1].json
     /\ submitAnswer[1].body.t = "list")
    => /\ submitResult[1] = Return("sync", submitAnswer[1].body)
       /\ parse_products(submitAnswer[1].body).products
              = ProductsOf(submitAnswer[1].body.l)
       /\ ~Called(calls[1], "mock.search_products")
       /\ scrapePc[1] \in {"filter", "done"}
              => all_products[1] = ProductsOf(submitAnswer[1].body.l)

-----------------------------------------------------------------------------
(* Claims about the reply routing of hs_client *)

\* C30 (as claimed): every chat reply that carries the house guide's answer
\* to a forwarded request, a GenerateResponse or an ErrorResponse, is sent to
\* the peer whose chat message was forwarded, whatever the order of the chat
\* messages of the peers and of the answers.
C30_ReplyReachesOriginator ==
    \A m \in delivered : m.kind = "ChatMessage" => m.to = m.origin

====
